---- MODULE Spec2Model ----
(***************************************************************************)
(* Admission control of the prompt generator's API routes:                 *)
(*   - getClientIp / pickPublicFromXff / isPrivate / makeRateKey           *)
(*     (src/src/utils/api-helpers.js, copied in pages/api/generate.js and  *)
(*     pages/api/surprise.js),                                             *)
(*   - the RateLimiterMemory bucket table behind rateLimiter.consume,      *)
(*   - the request handlers of /api/generate and /api/surprise up to and   *)
(*     including their rate-limiting step.                                 *)
(*                                                                         *)
(* JavaScript strings are modelled as sequences of one-character strings,  *)
(* so that startsWith, slice, split, trim and concatenation are computed   *)
(* character by character as the code computes them.                       *)
(***************************************************************************)
EXTENDS Integers, Sequences, FiniteSets, Bags, TLC

----------------------------------------------------------------------------
(* String helpers (String.prototype methods the helpers call).             *)

EmptyStr == << >>

StartsWith(s, p) ==
    /\ Len(s) >= Len(p)
    /\ SubSeq(s, 1, Len(p)) = p

Includes(s, c) == \E i \in 1..Len(s) : s[i] = c

\* s.slice(n)
Slice(s, n) == SubSeq(s, n + 1, Len(s))

\* U+FEFF, one character
Bom == "\\uFEFF"

\* the characters trim() removes and \s matches
IsSpace(c) == c \in {" ", "\t", "\n", "\r", Bom}

RECURSIVE TrimLeft(_)
TrimLeft(s) ==
    IF s # EmptyStr /\ IsSpace(Head(s)) THEN TrimLeft(Tail(s)) ELSE s

RECURSIVE TrimRight(_)
TrimRight(s) ==
    IF s # EmptyStr /\ IsSpace(s[Len(s)])
    THEN TrimRight(SubSeq(s, 1, Len(s) - 1))
    ELSE s

\* s.trim()
Trim(s) == TrimRight(TrimLeft(s))

\* s.split(','): every segment between commas, empty segments included
RECURSIVE SplitComma(_)
SplitComma(s) ==
    IF ~Includes(s, ",")
    THEN << s >>
    ELSE LET k == CHOOSE i \in 1..Len(s) :
                      /\ s[i] = ","
                      /\ \A j \in 1..(i - 1) : s[j] # ","
         IN  << SubSeq(s, 1, k - 1) >> \o SplitComma(SubSeq(s, k + 1, Len(s)))

UpperHex == << "A", "B", "C", "D", "E", "F" >>
LowerHex == << "a", "b", "c", "d", "e", "f" >>

\* one character of s.toLowerCase(); the addresses fed to the model use no
\* letter outside the hexadecimal digits
LowerChar(c) ==
    IF \E i \in 1..Len(UpperHex) : UpperHex[i] = c
    THEN LowerHex[CHOOSE i \in 1..Len(UpperHex) : UpperHex[i] = c]
    ELSE c

ToLowerCase(s) == [i \in 1..Len(s) |-> LowerChar(s[i])]

IsDigit(c) == c \in {"0", "1", "2", "3", "4", "5", "6", "7", "8", "9"}

----------------------------------------------------------------------------
(* getClientIp and its local helpers.                                      *)

V4MappedPrefix == << ":", ":", "f", "f", "f", "f", ":" >>
Loopback6 == << ":", ":", "1" >>
Loopback4 == << "1", "2", "7", ".", "0", ".", "0", ".", "1" >>
Unknown == << "u", "n", "k", "n", "o", "w", "n" >>

\* process.env.VERCEL === '1' || process.env.TRUST_PROXY === 'true'
trustProxyAlways(e) == TRUE

trustProxy(e) == e.VERCEL = "1" \/ e.TRUST_PROXY = "true"

headerCandidates ==
    << "cf-connecting-ip", "x-forwarded-for", "x-real-ip", "x-client-ip",
       "fastly-client-ip", "true-client-ip", "x-vercel-proxied-for" >>

\* /^172\.(1[6-9]|2\d|3[0-1])\./.test(ip)
Matches172(ip) ==
    /\ Len(ip) >= 7
    /\ SubSeq(ip, 1, 4) = << "1", "7", "2", "." >>
    /\ \/ ip[5] = "1" /\ ip[6] \in {"6", "7", "8", "9"}
       \/ ip[5] = "2" /\ IsDigit(ip[6])
       \/ ip[5] = "3" /\ ip[6] \in {"0", "1"}
    /\ ip[7] = "."

isPrivate(ip) ==
    IF ip = EmptyStr THEN TRUE
    ELSE IF Includes(ip, ".")
    THEN \/ StartsWith(ip, << "1", "0", "." >>)
         \/ StartsWith(ip, << "1", "2", "7", "." >>)
         \/ StartsWith(ip, << "1", "9", "2", ".", "1", "6", "8", "." >>)
         \/ Matches172(ip)
         \/ ip = << "0", ".", "0", ".", "0", ".", "0" >>
    ELSE LET lower == ToLowerCase(ip)
         IN  \/ lower = Loopback6
             \/ StartsWith(lower, << "f", "c", "0", "0", ":" >>)
             \/ StartsWith(lower, << "f", "d", "0", "0", ":" >>)
             \/ StartsWith(lower, << "f", "e", "8", "0", ":" >>)

\* the hops of a forwarding chain: split, trim, drop empties, strip ::ffff:
XffParts(xff) ==
    LET split   == SplitComma(xff)
        trimmed == [i \in 1..Len(split) |-> Trim(split[i])]
        kept    == SelectSeq(trimmed, LAMBDA s : s # EmptyStr)
    IN  [i \in 1..Len(kept) |->
            IF StartsWith(kept[i], V4MappedPrefix) THEN Slice(kept[i], 7)
            ELSE kept[i]]

pickPublicFromXff(xff) ==
    LET parts == XffParts(xff)
        pub   == SelectSeq(parts, LAMBDA p : ~isPrivate(p))
    IN  IF pub # << >> THEN Head(pub)
        ELSE IF parts # << >> THEN Head(parts)
        ELSE EmptyStr

\* the for loop over headerCandidates, from candidate i on; an absent header
\* and an empty one are both falsy and are both the empty string here
RECURSIVE ScanHeaders(_, _)
ScanHeaders(headers, i) ==
    IF i > Len(headerCandidates) THEN EmptyStr
    ELSE LET h   == headerCandidates[i]
             val == headers[h]
         IN  IF val = EmptyStr THEN ScanHeaders(headers, i + 1)
             ELSE LET ip == IF h = "x-forwarded-for"
                            THEN pickPublicFromXff(val)
                            ELSE val
                  IN  IF ip # EmptyStr THEN ip
                      ELSE ScanHeaders(headers, i + 1)

getClientIp(req, e) ==
    LET fromHeaders == IF trustProxy(e) THEN ScanHeaders(req.headers, 1)
                       ELSE EmptyStr
        ip1 == IF fromHeaders # EmptyStr THEN fromHeaders
               ELSE req.remoteAddress
        ip2 == IF StartsWith(ip1, V4MappedPrefix) THEN Slice(ip1, 7) ELSE ip1
    IN  IF ip1 = EmptyStr THEN Unknown
        ELSE IF ip2 = Loopback6 THEN Loopback4
        ELSE ip2

\* createHash('sha256')...digest('hex'): a collision-free digest, kept as the
\* tagged pre-image so that equal digests mean equal digest inputs
sha256hex(s) == << "sha256", s >>

\* the string handed to the digest: `${ip}:${ua}`
RateKeyInput(req, e) ==
    getClientIp(req, e) \o << ":" >> \o req.headers["user-agent"]

makeRateKey(req, e) == sha256hex(RateKeyInput(req, e))

----------------------------------------------------------------------------
(* The rate limiter: new RateLimiterMemory({ points: 5, duration: 60 }).   *)

PointsOffByOne == 5 + 1

Points == 5

DurationHalved == 60 \div 2

Duration == 60

\* rateLimiter.consume(key, 1)
Cost == 1

NoBuckets == [k \in {} |-> [points_remaining |-> 0, window_end |-> 0]]

BucketActive(table, key, t) ==
    /\ key \in DOMAIN table
    /\ t < table[key].window_end

\* try_consume answers Allow
ConsumeAllows(table, key, t) ==
    \/ ~BucketActive(table, key, t)
    \/ table[key].points_remaining >= Cost

\* a limiter that charges a rejected consume as well
ConsumeTableChargesRejects(table, key, t) ==
    IF ~BucketActive(table, key, t)
    THEN (key :> [points_remaining |-> Points - Cost,
                  window_end |-> t + Duration]) @@ table
    ELSE [table EXCEPT ![key].points_remaining = @ - Cost]

\* the bucket table after try_consume(key, Cost) at time t
ConsumeTable(table, key, t) ==
    IF ~BucketActive(table, key, t)
    THEN (key :> [points_remaining |-> Points - Cost,
                  window_end |-> t + Duration]) @@ table
    ELSE IF table[key].points_remaining >= Cost
    THEN [table EXCEPT ![key].points_remaining = @ - Cost]
    ELSE table

\* points the bucket holds for key at time t, before a consume
PointsBefore(table, key, t) ==
    IF BucketActive(table, key, t) THEN table[key].points_remaining
    ELSE Points

----------------------------------------------------------------------------
(* Requests, routes and the limiter instance each route consumes from.     *)

Routes == {"generate", "surprise"}

\* "per-route": pages/api/generate.js and pages/api/surprise.js each build
\* their own RateLimiterMemory at module scope;
\* "singleton": the revision in which both routes take global.__pgRateLimiter
Builds == {"per-route", "singleton"}

rateLimiterOf(route, b) ==
    IF b = "singleton" THEN "global" ELSE route

Limiters == {"generate", "surprise", "global"}

\* surprise.js guards the limiter with `if (rateLimiter)`: it is null only
\* when require('rate-limiter-flexible') failed; the limiter behaviours are
\* those of a build that has the package, the handler bodies below are
\* followed with and without it
RateLimiterLoaded == TRUE

HeaderNames ==
    {headerCandidates[i] : i \in 1..Len(headerCandidates)} \cup {"user-agent"}

NoHeaders == [h \in HeaderNames |-> EmptyStr]

PeerA == << "2", "0", "3", ".", "0", ".", "1", "1", "3", ".", "7" >>
PeerB == << "1", "9", "8", ".", "5", "1", ".", "1", "0", "0", ".", "9" >>
Curl == << "c", "u", "r", "l" >>
Wget == << "w", "g", "e", "t" >>

Request(route, method, peer, ua) ==
    [route |-> route, method |-> method, remoteAddress |-> peer,
     headers |-> [NoHeaders EXCEPT !["user-agent"] = ua]]

Methods == {"POST", "GET"}

\* the requests one behaviour may receive: two senders, each with either
\* method; a sender is a route together with a peer address and a user-agent
Senders ==
    { << "generate", PeerA, Curl >>, << "generate", PeerA, Wget >>,
      << "generate", PeerB, Curl >>, << "surprise", PeerA, Curl >> }

Traffics == { T \in SUBSET Senders :
                /\ Cardinality(T) = 2
                /\ << "generate", PeerA, Curl >> \in T }

DirectEnv == [VERCEL |-> "", TRUST_PROXY |-> ""]

----------------------------------------------------------------------------
(* Bounds.                                                                 *)

\* handler invocations that may be suspended at an await at one time
MaxInFlight == 2
\* requests whose admission is remembered (in flight or in the log)
MaxRequests == 6
\* clock ticks of the model; a tick is half a window
MaxTicks == 2

TickStep == Duration \div 2
MaxTime == MaxTicks * TickStep

----------------------------------------------------------------------------
VARIABLES
    env,        \* process.env, fixed when the process starts
    build,      \* which revision's limiter wiring runs
    traffic,    \* the senders of this behaviour
    now,        \* wall clock, in seconds
    buckets,    \* limiter instance -> bucket table
    inflight,   \* bag of handler invocations that have not been retired
    log,        \* bag of admissions within the last Duration seconds
    probe,      \* inputs of the pure-function checks
    probeOut    \* their results

vars == << env, build, traffic, now, buckets, inflight, log, probe, probeOut >>

Idle == [pc |-> "idle"]

\* the key of the first revisions of the route:
\* req.headers['x-forwarded-for'] || 'anonymous', used undigested
HandlerKeyAnonymous(req, e) ==
    << "raw", IF req.headers["x-forwarded-for"] # EmptyStr
              THEN req.headers["x-forwarded-for"]
              ELSE << "a", "n", "o", "n", "y", "m", "o", "u", "s" >> >>

\* the key the handler passes to rateLimiter.consume
HandlerKey(req, e) == makeRateKey(req, e)

\* try { await rateLimiter.consume(key, 1) } catch { return 429 }
HandlerAdmitsAlways(allowed) == TRUE

HandlerAdmits(allowed) == allowed

\* a handler invocation suspended at `await rateLimiter.consume(key, 1)`:
\* what it asked of the limiter, when, and what the limiter answered
Invocation(req, t, key, allowed, before, wend) ==
    [route |-> req.route, ip |-> getClientIp(req, env),
     ua |-> req.headers["user-agent"], key |-> key, t |-> t,
     allowed |-> allowed, before |-> before, wend |-> wend]

Remembered == BagCardinality(inflight) + BagCardinality(log)

Init ==
    /\ env = DirectEnv
    /\ build \in Builds
    /\ traffic \in Traffics
    \* with one route in use the two wirings differ in the limiter's name only
    /\ build = "singleton" => \E s \in traffic : s[1] = "surprise"
    /\ now = 0
    /\ buckets = [l \in Limiters |-> NoBuckets]
    /\ inflight = EmptyBag
    /\ log = EmptyBag
    /\ probe = Idle
    /\ probeOut = Idle

\* A request arrives and its handler runs to its first await: the method
\* check (405, and the handler is over), then makeRateKey and the call of
\* rateLimiter.consume, whose executor updates the bucket table before the
\* handler is suspended.
HandlerEnter(req) ==
    /\ BagCardinality(inflight) < MaxInFlight
    /\ Remembered < MaxRequests
    /\ IF req.method # "POST"
       THEN UNCHANGED << buckets, inflight >>
       ELSE \E key \in {HandlerKey(req, env)} :
              \E l \in {rateLimiterOf(req.route, build)} :
                 \E after \in {ConsumeTable(buckets[l], key, now)} :
                    /\ RateLimiterLoaded
                    /\ buckets' = [buckets EXCEPT ![l] = after]
                    /\ inflight' = inflight (+) SetToBag({
                           Invocation(req, now, key,
                                      ConsumeAllows(buckets[l], key, now),
                                      PointsBefore(buckets[l], key, now),
                                      IF key \in DOMAIN after
                                      THEN after[key].window_end ELSE 0)})
    /\ UNCHANGED << env, build, traffic, now, log, probe, probeOut >>

InHorizon(e, t) == t < e.t + Duration

\* The handler resumes after `await rateLimiter.consume`: a rejected promise
\* lands in the catch block, which answers 429 and ends the handler; an
\* admitted handler goes on to its body, which never touches the limiter.
\* The log remembers an admission for one window length.
HandlerAfterConsume(h) ==
    /\ inflight' = inflight (-) SetToBag({h})
    /\ log' = IF HandlerAdmits(h.allowed) /\ InHorizon(h, now)
              THEN log (+) SetToBag({h})
              ELSE log
    /\ UNCHANGED << env, build, traffic, now, buckets, probe, probeOut >>

\* Time passes; admissions older than one window length leave the log.
\* consume settles its promise before it returns, so a handler suspended at
\* that await resumes on the microtask queue, before the clock moves a tick.
Tick ==
    /\ now + TickStep <= MaxTime
    /\ inflight = EmptyBag
    /\ now' = now + TickStep
    /\ log' = [e \in {x \in DOMAIN log : InHorizon(x, now')} |-> log[e]]
    /\ UNCHANGED << env, build, traffic, buckets, inflight, probe, probeOut >>

Next ==
    \/ \E s \in traffic, m \in Methods :
          HandlerEnter(Request(s[1], m, s[2], s[3]))
    \/ \E h \in DOMAIN inflight : HandlerAfterConsume(h)
    \/ Tick

Spec == Init /\ [][Next]_vars

----------------------------------------------------------------------------
(* What the limiter answered and whom the handlers admitted.               *)

\* every consume the model remembers: suspended handlers and the log
Answered == inflight (+) log

CountWhere(bag, P(_)) ==
    BagCardinality([e \in {x \in DOMAIN bag : P(x)} |-> bag[e]])

LimiterOf(e) == rateLimiterOf(e.route, build)

SameBucket(e, x) == LimiterOf(x) = LimiterOf(e) /\ x.key = e.key

\* the handler invocations a step adds (the request that entered)
Entered(h) == inflight' = inflight (+) SetToBag({h})

\* the bucket a table holds for key: one bucket or none
BucketOf(table, key) ==
    IF key \in DOMAIN table THEN {table[key]} ELSE {}

\* C1 as stated: for every fingerprint, the calls answered Allow whose times
\* fall inside any time interval of length 60 s number at most 5.  Every
\* such interval that holds an Allow can be taken to start at one.
C1_AllowsInAnyInterval ==
    \A e \in DOMAIN Answered :
        e.allowed =>
            CountWhere(Answered, LAMBDA x : /\ x.allowed
                                            /\ SameBucket(e, x)
                                            /\ e.t <= x.t
                                            /\ x.t < e.t + 60) <= 5

\* C1 amended: for every fingerprint, the calls answered Allow within one
\* bucket window (the 60 s from the consume that created or reset the
\* bucket up to its window_end) number at most 5.
C1_AllowsPerBucketWindow ==
    \A e \in DOMAIN Answered :
        e.allowed =>
            /\ e.wend - 60 <= e.t
            /\ e.t < e.wend
            /\ CountWhere(Answered, LAMBDA x : /\ x.allowed
                                               /\ SameBucket(e, x)
                                               /\ x.wend = e.wend) <= 5

\* a sixth consume inside a window that already gave five Allows is in hand
C1_Witness ==
    \E h \in DOMAIN inflight :
        /\ ~h.allowed
        /\ CountWhere(log, LAMBDA x : /\ x.allowed
                                      /\ SameBucket(h, x)
                                      /\ x.wend = h.wend) = 5

\* C2: when two requests of one fingerprint are handled concurrently and
\* the bucket has exactly one point left, at most one of them is admitted:
\* of the requests that consumed from a window when at most one point was
\* left in it, the handlers admit at most one.
C2_OnePointOneAdmission ==
    \A e \in DOMAIN log :
        CountWhere(log, LAMBDA x : /\ SameBucket(e, x)
                                   /\ x.wend = e.wend
                                   /\ x.before <= 1) <= 1

\* two handlers of one fingerprint are suspended at the await together; one
\* took the last point, the other was refused
C2_Witness ==
    \E h1, h2 \in DOMAIN inflight :
        /\ SameBucket(h1, h2)
        /\ h1.wend = h2.wend
        /\ h1.allowed /\ h1.before = 1
        /\ ~h2.allowed

\* consumes of the entering request's bucket that the open window has seen
PriorInWindow(h) ==
    CountWhere(Answered, LAMBDA x : /\ SameBucket(h, x)
                                    /\ now < x.wend)

\* C3: capacity 5, window 60 s: the first 5 consecutive consumes of a
\* fingerprint are allowed, the 6th inside the window is rejected, and a
\* consume once now >= window_end is allowed and resets the bucket to
\* {capacity - cost, now + duration} = {4, now + 60}.
C3_QuotaSteps ==
    \A h \in DOMAIN inflight' :
        Entered(h) =>
            LET l     == LimiterOf(h)
                prior == PriorInWindow(h)
                reset == /\ h.allowed
                         /\ buckets'[l][h.key] =
                               [points_remaining |-> 4, window_end |-> now + 60]
            IN  /\ prior = 0 => reset
                /\ (h.key \in DOMAIN buckets[l]
                      /\ now >= buckets[l][h.key].window_end) => reset
                /\ prior \in 1..4 => h.allowed
                /\ prior >= 5 => ~h.allowed

\* C3, as a property of every step: each consume is answered as above.
C3_QuotaEnforcement == [][C3_QuotaSteps]_vars

\* a window was used up and, once it has elapsed, the fingerprint is allowed
\* again
C3_Witness ==
    \E h \in DOMAIN inflight :
        /\ h.allowed
        /\ h.t >= 60
        /\ h.wend = h.t + 60
        /\ \E x \in DOMAIN log :
              SameBucket(h, x) /\ x.wend <= h.t /\ x.before = 1

\* C4: a consume for fingerprint A leaves the bucket of every distinct
\* fingerprint B unchanged, and with it the answer B's next consume gets.
C4_OtherBucketsStep ==
    \A h \in DOMAIN inflight' :
        Entered(h) =>
            \A l \in Limiters :
                \A k \in DOMAIN buckets[l] \cup DOMAIN buckets'[l] :
                    (l # LimiterOf(h) \/ k # sha256hex(h.ip \o << ":" >> \o h.ua))
                    => /\ BucketOf(buckets'[l], k) = BucketOf(buckets[l], k)
                       /\ ConsumeAllows(buckets'[l], k, now)
                             = ConsumeAllows(buckets[l], k, now)

\* C4, as a property of every step: no consume touches another fingerprint's
\* bucket.
C4_QuotaIsolation == [][C4_OtherBucketsStep]_vars

\* fingerprint A has used up its window while a distinct fingerprint B on
\* the same limiter found its full quota and holds what its own consume left
C4_Witness ==
    \E hB \in DOMAIN inflight :
        LET table == buckets[LimiterOf(hB)]
        IN  /\ hB.allowed /\ hB.before = 5
            /\ table[hB.key] = [points_remaining |-> 4, window_end |-> hB.wend]
            /\ \E kA \in DOMAIN table :
                  /\ kA # hB.key
                  /\ table[kA].points_remaining = 0
                  /\ now < table[kA].window_end

\* C5: a rejected try_consume leaves the bucket unchanged.
C5_RejectStep ==
    \A h \in DOMAIN inflight' :
        (Entered(h) /\ ~h.allowed) => buckets' = buckets

\* C5, as a property of every step: a rejected consume changes no bucket.
C5_RejectKeepsBucket == [][C5_RejectStep]_vars

\* a consume has been rejected and the bucket is as the fifth Allow left it
C5_Witness ==
    \E h \in DOMAIN inflight :
        /\ ~h.allowed
        /\ buckets[LimiterOf(h)][h.key] =
              [points_remaining |-> 0, window_end |-> h.wend]

\* C9: 5 requests per minute per IP: for one resolved client IP an API
\* route admits at most 5 requests within one 60-second window (the window
\* of the limiter that an admission falls in), whatever User-Agent the
\* requests carry.
C9_FivePerIp ==
    \A e \in DOMAIN log :
        CountWhere(log, LAMBDA x : /\ x.route = e.route
                                   /\ x.ip = e.ip
                                   /\ e.t <= x.t
                                   /\ x.t < e.wend) <= 5

\* the points a fingerprint has left at a route
QuotaAt(route, key) ==
    PointsBefore(buckets[rateLimiterOf(route, build)], key, now)

\* C10: the routes share one limiter: a point consumed at /api/generate
\* reduces the quota the fingerprint has at /api/surprise and vice versa
\* (a fingerprint has the same quota left at both routes), so within one
\* window a fingerprint is admitted at most 5 times across both routes.
C10_OneLimiterForAllRoutes ==
    /\ \A e \in DOMAIN Answered :
          QuotaAt("generate", e.key) = QuotaAt("surprise", e.key)
    /\ \A e \in DOMAIN log :
          CountWhere(log, LAMBDA x : /\ x.key = e.key
                                     /\ x.wend = e.wend) <= 5

----------------------------------------------------------------------------
(* The inputs of the checks of getClientIp, pickPublicFromXff and          *)
(* makeRateKey as functions.                                               *)

Hop10 == << "1", "0", ".", "0", ".", "0", ".", "5" >>
HopPublic == << "2", "0", "3", ".", "0", ".", "1", "1", "3", ".", "7" >>
Hop127 == << "1", "2", "7", ".", "0", ".", "0", ".", "1" >>
Hop192 == << "1", "9", "2", ".", "1", "6", "8", ".", "1", ".", "1" >>
Hop172Low == << "1", "7", "2", ".", "1", "6", ".", "0", ".", "1" >>
Hop172High == << "1", "7", "2", ".", "3", "2", ".", "0", ".", "1" >>
HopLoop6 == << ":", ":", "1" >>
HopFc00 == << "f", "c", "0", "0", ":", ":", "1" >>
HopUla == << "f", "d", "1", "2", ":", "3", "4", "5", "6", ":", ":", "1" >>
HopFe80 == << "f", "e", "8", "0", ":", ":", "1" >>
HopFebf == << "f", "e", "b", "f", ":", ":", "1" >>
HopMapped10 == << ":", ":", "f", "f", "f", "f", ":", "1", "0", ".", "0", ".", "0", ".", "1" >>
HopGlobal6 == << "2", "0", "0", "1", ":", "d", "b", "8", ":", ":", "1" >>
HopFe80Upper == << "F", "E", "8", "0", ":", ":", "1" >>

Hops ==
    { Hop10, HopPublic, Hop127, Hop192,
      Hop172Low, Hop172High, HopLoop6, HopFc00,
      HopUla, HopFe80, HopFebf, HopMapped10,
      HopGlobal6, HopFe80Upper }

Peer6 == << "2", "0", "0", "1", ":", "d", "b", "8", ":", ":", "1" >>
Peer6Long == << "2", "0", "0", "1", ":", "d", "b", "8", ":", ":", "1", ":", "5" >>
PeerMapped == << ":", ":", "f", "f", "f", "f", ":", "2", "0", "3", ".", "0", ".", "1", "1", "3", ".", "7" >>

ProbePeers == { EmptyStr, Loopback6, PeerMapped, PeerA, Peer6, Peer6Long }

AgentWithColon == << "5", ":" >> \o Curl

ProbeAgents == { EmptyStr, Curl, AgentWithColon }

\* xs joined by sep, as a proxy writes a forwarding chain
RECURSIVE Join(_, _)
Join(xs, sep) ==
    IF xs = << >> THEN EmptyStr
    ELSE IF Len(xs) = 1 THEN xs[1]
    ELSE xs[1] \o sep \o Join(Tail(xs), sep)

ChainSeparators == { << "," >>, << ",", " " >>, << " ", ",", ",", " " >> }

ExampleChain == Join(<< Hop10, HopPublic >>, << ",", " " >>)

ProbeHeaders ==
    { NoHeaders,
      [NoHeaders EXCEPT !["x-forwarded-for"] = ExampleChain],
      [NoHeaders EXCEPT !["cf-connecting-ip"] = PeerB,
                        !["x-forwarded-for"] = ExampleChain],
      [NoHeaders EXCEPT !["x-forwarded-for"] = << " ", ",", " " >>,
                        !["x-real-ip"] = PeerMapped],
      [NoHeaders EXCEPT !["x-vercel-proxied-for"] = Loopback6] }

ProbeRequests ==
    { [route |-> "generate", method |-> "POST", remoteAddress |-> p,
       headers |-> [h EXCEPT !["user-agent"] = ua]] :
         p \in ProbePeers, ua \in ProbeAgents, h \in ProbeHeaders }

Envs == [VERCEL : {"", "1"}, TRUST_PROXY : {"", "true", "1"}]

\* hops of one forwarding chain
MaxHops == 2

HopLists == UNION { [1..n -> Hops] : n \in 1..MaxHops }

InitProbe ==
    /\ env \in Envs
    /\ build = "per-route"
    /\ traffic = {}
    /\ now = 0
    /\ buckets = [l \in Limiters |-> NoBuckets]
    /\ inflight = EmptyBag
    /\ log = EmptyBag
    /\ \/ probe \in [pc : {"requests"}, a : ProbeRequests, b : ProbeRequests]
       \/ probe \in [pc : {"chain"}, hops : HopLists, sep : ChainSeparators]
    /\ probeOut = Idle

\* getClientIp and makeRateKey applied to two requests
ResolveBoth ==
    /\ probe.pc = "requests"
    /\ probeOut = Idle
    /\ probeOut' = [pc |-> "resolved",
                    ipA |-> getClientIp(probe.a, env),
                    ipB |-> getClientIp(probe.b, env),
                    inA |-> RateKeyInput(probe.a, env),
                    inB |-> RateKeyInput(probe.b, env),
                    keyA |-> makeRateKey(probe.a, env),
                    keyB |-> makeRateKey(probe.b, env)]
    /\ UNCHANGED << env, build, traffic, now, buckets, inflight, log, probe >>

\* pickPublicFromXff applied to a forwarding chain
PickFromChain ==
    /\ probe.pc = "chain"
    /\ probeOut = Idle
    /\ probeOut' = [pc |-> "picked",
                    xff |-> Join(probe.hops, probe.sep),
                    picked |-> pickPublicFromXff(Join(probe.hops, probe.sep))]
    /\ UNCHANGED << env, build, traffic, now, buckets, inflight, log, probe >>

NextProbe == ResolveBoth \/ PickFromChain

SpecProbe == InitProbe /\ [][NextProbe]_vars

----------------------------------------------------------------------------
(* The address ranges of C7, read off the numeric value of an address.     *)

RECURSIVE FieldsOf(_, _)
FieldsOf(s, c) ==
    IF ~Includes(s, c) THEN << s >>
    ELSE LET k == CHOOSE i \in 1..Len(s) :
                      s[i] = c /\ \A j \in 1..(i - 1) : s[j] # c
         IN  << SubSeq(s, 1, k - 1) >> \o FieldsOf(SubSeq(s, k + 1, Len(s)), c)

HexDigits ==
    << "0", "1", "2", "3", "4", "5", "6", "7", "8", "9",
       "a", "b", "c", "d", "e", "f" >>

DigitValue(c) == (CHOOSE i \in 1..Len(HexDigits) : HexDigits[i] = LowerChar(c)) - 1

RECURSIVE NumberIn(_, _)
NumberIn(s, base) ==
    IF s = << >> THEN 0
    ELSE NumberIn(SubSeq(s, 1, Len(s) - 1), base) * base + DigitValue(s[Len(s)])

InPrivateRange(ip) ==
    IF Includes(ip, ".")
    THEN LET f  == FieldsOf(ip, ".")
             o1 == NumberIn(f[1], 10)
             o2 == NumberIn(f[2], 10)
         IN  \/ o1 = 10
             \/ o1 = 127
             \/ o1 = 192 /\ o2 = 168
             \/ o1 = 172 /\ o2 \in 16..31
    ELSE LET g == NumberIn(FieldsOf(ip, ":")[1], 16)
         IN  \/ ip = Loopback6
             \/ g \div 512 = 126
             \/ g \div 64 = 1018

StripMapped(hop) ==
    IF StartsWith(hop, V4MappedPrefix) THEN Slice(hop, 7) ELSE hop

\* the first hop outside the ranges, the first hop when there is none
FirstPublicHop(hops) ==
    LET clean == [i \in 1..Len(hops) |-> StripMapped(Trim(hops[i]))]
        pub   == SelectSeq(clean, LAMBDA h : ~InPrivateRange(h))
    IN  IF pub # << >> THEN Head(pub) ELSE Head(clean)

NormalizedPeer(addr) ==
    IF addr = EmptyStr THEN Unknown
    ELSE IF StripMapped(addr) = Loopback6 THEN Loopback4
    ELSE StripMapped(addr)

Untrusted == env.VERCEL # "1" /\ env.TRUST_PROXY # "true"

SameSender(a, b) ==
    /\ a.remoteAddress = b.remoteAddress
    /\ a.headers["user-agent"] = b.headers["user-agent"]

\* C6: with trust_proxy false the resolved address is the normalized socket
\* address, and two requests that differ only in their forwarding headers
\* resolve to the same address and the same fingerprint.
C6_ProxyGating ==
    (probeOut.pc = "resolved" /\ Untrusted) =>
        /\ probeOut.ipA = NormalizedPeer(probe.a.remoteAddress)
        /\ SameSender(probe.a, probe.b) =>
              /\ probeOut.ipA = probeOut.ipB
              /\ probeOut.keyA = probeOut.keyB

\* untrusted deployment, one sender, one request with an injected
\* forwarding chain and one without
C6_Witness ==
    /\ probeOut.pc = "resolved"
    /\ Untrusted
    /\ SameSender(probe.a, probe.b)
    /\ probe.a.headers["x-forwarded-for"] = ExampleChain
    /\ probe.b.headers = [NoHeaders EXCEPT
                             !["user-agent"] = probe.a.headers["user-agent"]]
    /\ probeOut.ipA = PeerA

\* C7: for every forwarding chain the resolver selects the first hop (after
\* trimming and stripping '::ffff:') that is outside 10/8, 127/8,
\* 192.168/16, 172.16/12, ::1, fc00::/7 and fe80::/10, and the first hop
\* only when every hop is inside; '10.0.0.5, 203.0.113.7' gives
\* '203.0.113.7'.
C7_FirstPublicHop ==
    /\ pickPublicFromXff(ExampleChain) = HopPublic
    /\ probeOut.pc = "picked" =>
          probeOut.picked = FirstPublicHop(probe.hops)

\* C8: makeRateKey is deterministic, and two distinct (resolved address,
\* user-agent) pairs never feed the same string to the digest, so they get
\* distinct fingerprints.
C8_KeySeparatesClients ==
    probeOut.pc = "resolved" =>
        LET pairA == << probeOut.ipA, probe.a.headers["user-agent"] >>
            pairB == << probeOut.ipB, probe.b.headers["user-agent"] >>
        IN  /\ pairA = pairB => probeOut.keyA = probeOut.keyB
            /\ pairA # pairB => /\ probeOut.inA # probeOut.inB
                                /\ probeOut.keyA # probeOut.keyB

----------------------------------------------------------------------------
(* JSON.parse, as parseJsonStrictish's tryParse calls it.  A parsed value  *)
(* is a tagged tuple: << "obj", [key -> value] >>, << "arr", elements >>,  *)
(* << "str", characters >>, << "num", its text >>, << "true" >>,           *)
(* << "false" >>, << "null" >>.                                            *)

JsNull == << "null" >>

\* the white space of the JSON grammar
IsJsonWs(c) == c \in {" ", "\t", "\n", "\r"}

\* the first position from i on that holds no JSON white space
SkipWs(s, i) ==
    CHOOSE j \in i..(Len(s) + 1) :
        /\ j = Len(s) + 1 \/ ~IsJsonWs(s[j])
        /\ \A k \in i..(j - 1) : IsJsonWs(s[k])

\* the first position from i on that holds no digit
SkipDigits(s, i) ==
    CHOOSE j \in i..(Len(s) + 1) :
        /\ j = Len(s) + 1 \/ ~IsDigit(s[j])
        /\ \A k \in i..(j - 1) : IsDigit(s[k])

ParseFailed == [ok |-> FALSE, val |-> JsNull, next |-> 0]

Parsed(v, n) == [ok |-> TRUE, val |-> v, next |-> n]

At(s, i, c) == i <= Len(s) /\ s[i] = c

\* -?(0|[1-9][0-9]*)(\.[0-9]+)?([eE][+-]?[0-9]+)?
ParseNumber(s, i) ==
    LET d0   == IF At(s, i, "-") THEN i + 1 ELSE i
        d1   == IF At(s, d0, "0") THEN d0 + 1 ELSE SkipDigits(s, d0)
        f1   == IF At(s, d1, ".") /\ SkipDigits(s, d1 + 1) > d1 + 1
                THEN SkipDigits(s, d1 + 1) ELSE d1
        e0   == IF At(s, f1, "e") \/ At(s, f1, "E")
                THEN (IF At(s, f1 + 1, "+") \/ At(s, f1 + 1, "-")
                      THEN f1 + 2 ELSE f1 + 1)
                ELSE f1
        e1   == IF e0 > f1 /\ SkipDigits(s, e0) > e0
                THEN SkipDigits(s, e0) ELSE f1
    IN  IF d1 = d0 THEN ParseFailed
        ELSE Parsed(<< "num", SubSeq(s, i, e1 - 1) >>, e1)

SimpleEscapes ==
    [c \in {"\"", "\\", "/", "b", "f", "n", "r", "t"} |->
        CASE c = "n" -> "\n"
          [] c = "r" -> "\r"
          [] c = "t" -> "\t"
          [] c = "b" -> "\\b"
          [] c = "f" -> "\\f"
          [] OTHER -> c]

IsHex(c) == IsDigit(c) \/ c \in {"a", "b", "c", "d", "e", "f",
                                 "A", "B", "C", "D", "E", "F"}

\* the characters of a string literal from position i (after the opening
\* quote) on, decoded into acc, up to the closing quote
RECURSIVE ParseChars(_, _, _)
ParseChars(s, i, acc) ==
    IF i > Len(s) THEN ParseFailed
    ELSE IF s[i] = "\"" THEN Parsed(<< "str", acc >>, i + 1)
    ELSE IF s[i] \in {"\n", "\r", "\t"} THEN ParseFailed
    ELSE IF s[i] # "\\" THEN ParseChars(s, i + 1, Append(acc, s[i]))
    ELSE IF i + 1 > Len(s) THEN ParseFailed
    ELSE IF s[i + 1] \in DOMAIN SimpleEscapes
    THEN ParseChars(s, i + 2, Append(acc, SimpleEscapes[s[i + 1]]))
    ELSE IF /\ s[i + 1] = "u"
            /\ i + 5 <= Len(s)
            /\ \A k \in (i + 2)..(i + 5) : IsHex(s[k])
    THEN ParseChars(s, i + 6, Append(acc, SubSeq(s, i, i + 5)))
    ELSE ParseFailed

StartsAt(s, i, w) ==
    /\ i + Len(w) - 1 <= Len(s)
    /\ SubSeq(s, i, i + Len(w) - 1) = w

RECURSIVE ParseValue(_, _)
RECURSIVE ParseMembers(_, _, _)
RECURSIVE ParseElements(_, _, _)

\* the members of an object from position i on (white space skipped), the
\* ones read so far in acc; a repeated key keeps its last value
ParseMembers(s, i, acc) ==
    IF ~At(s, i, "\"") THEN ParseFailed
    ELSE LET k == ParseChars(s, i + 1, << >>)
         IN  IF ~k.ok THEN ParseFailed
             ELSE LET c == SkipWs(s, k.next)
                  IN  IF ~At(s, c, ":") THEN ParseFailed
                      ELSE LET v == ParseValue(s, SkipWs(s, c + 1))
                           IN  IF ~v.ok THEN ParseFailed
                               ELSE LET n    == SkipWs(s, v.next)
                                        more == (k.val[2] :> v.val) @@ acc
                                    IN  IF At(s, n, "}")
                                        THEN Parsed(<< "obj", more >>, n + 1)
                                        ELSE IF At(s, n, ",")
                                        THEN ParseMembers(s, SkipWs(s, n + 1), more)
                                        ELSE ParseFailed

\* the elements of an array from position i on (white space skipped)
ParseElements(s, i, acc) ==
    LET v == ParseValue(s, i)
    IN  IF ~v.ok THEN ParseFailed
        ELSE LET n == SkipWs(s, v.next)
             IN  IF At(s, n, "]")
                 THEN Parsed(<< "arr", Append(acc, v.val) >>, n + 1)
                 ELSE IF At(s, n, ",")
                 THEN ParseElements(s, SkipWs(s, n + 1), Append(acc, v.val))
                 ELSE ParseFailed

NoMembers == [k \in {} |-> JsNull]

\* one JSON value that starts at position i
ParseValue(s, i) ==
    IF i > Len(s) THEN ParseFailed
    ELSE IF s[i] = "{"
    THEN (IF At(s, SkipWs(s, i + 1), "}")
          THEN Parsed(<< "obj", NoMembers >>, SkipWs(s, i + 1) + 1)
          ELSE ParseMembers(s, SkipWs(s, i + 1), NoMembers))
    ELSE IF s[i] = "["
    THEN (IF At(s, SkipWs(s, i + 1), "]")
          THEN Parsed(<< "arr", << >> >>, SkipWs(s, i + 1) + 1)
          ELSE ParseElements(s, SkipWs(s, i + 1), << >>))
    ELSE IF s[i] = "\"" THEN ParseChars(s, i + 1, << >>)
    ELSE IF StartsAt(s, i, << "t", "r", "u", "e" >>)
    THEN Parsed(<< "true" >>, i + 4)
    ELSE IF StartsAt(s, i, << "f", "a", "l", "s", "e" >>)
    THEN Parsed(<< "false" >>, i + 5)
    ELSE IF StartsAt(s, i, << "n", "u", "l", "l" >>)
    THEN Parsed(JsNull, i + 4)
    ELSE ParseNumber(s, i)

\* JSON.parse(s): the whole text is one value between optional white space
JsonParses(s) ==
    \E v \in {ParseValue(s, SkipWs(s, 1))} :
        v.ok /\ SkipWs(s, v.next) > Len(s)

JsonParse(s) == ParseValue(s, SkipWs(s, 1)).val

\* const tryParse = (s) => { try { return JSON.parse(s); } catch { return null; } }
tryParse(s) ==
    CHOOSE r \in
      { IF v.ok /\ SkipWs(s, v.next) > Len(s) THEN v.val ELSE JsNull :
          v \in {ParseValue(s, SkipWs(s, 1))} } : TRUE

\* a number literal that denotes zero: no digit of its mantissa is non-zero
IsZeroText(t) ==
    LET stop == CHOOSE j \in 1..(Len(t) + 1) :
                    /\ j = Len(t) + 1 \/ t[j] \in {"e", "E"}
                    /\ \A k \in 1..(j - 1) : t[k] \notin {"e", "E"}
    IN  \A k \in 1..(stop - 1) : t[k] \in {"0", "-", "."}

\* if (parsed): null, false, 0 and '' are falsy
Truthy(v) ==
    CASE v[1] = "null" -> FALSE
      [] v[1] = "false" -> FALSE
      [] v[1] = "num" -> ~IsZeroText(v[2])
      [] v[1] = "str" -> v[2] # << >>
      [] OTHER -> TRUE

----------------------------------------------------------------------------
(* parseJsonStrictish (pages/api/generate.js): the recovery ladder.        *)

\* U+0060, one character
Backtick == "\\x60"

Fence == << Backtick, Backtick, Backtick >>
LQuote == "\\u201C"
RQuote == "\\u201D"

\* s.indexOf(w, i - 1) + 1: the first position from i on where w starts,
\* 0 when there is none
IndexOfFrom(s, w, i) ==
    LET hits == {j \in i..(Len(s) - Len(w) + 1) : StartsAt(s, j, w)}
    IN  IF hits = {} THEN 0
        ELSE CHOOSE j \in hits : \A k \in hits : j <= k

\* s.lastIndexOf(c) + 1
LastIndexOf(s, c) ==
    LET hits == {j \in 1..Len(s) : s[j] = c}
    IN  IF hits = {} THEN 0
        ELSE CHOOSE j \in hits : \A k \in hits : k <= j

\* the first position from i on that holds no white space
SkipSpace(s, i) ==
    CHOOSE j \in i..(Len(s) + 1) :
        /\ j = Len(s) + 1 \/ ~IsSpace(s[j])
        /\ \A k \in i..(j - 1) : IsSpace(s[k])

\* the characters of s at the positions that satisfy Keep, in order
KeepWhere(s, Keep(_)) ==
    LET kept == SelectSeq([i \in 1..Len(s) |-> i], Keep)
    IN  [k \in 1..Len(kept) |-> s[kept[k]]]

\* raw.trim().replace(/^\uFEFF/, '')
FirstCandidate(raw) ==
    LET t == Trim(raw)
    IN  IF t # EmptyStr /\ t[1] = Bom THEN Tail(t) ELSE t

\* (?:json)? of the fence pattern, case-insensitive
HasJsonTag(s, i) ==
    /\ i + 3 <= Len(s)
    /\ s[i] \in {"j", "J"}
    /\ s[i + 1] \in {"s", "S"}
    /\ s[i + 2] \in {"o", "O"}
    /\ s[i + 3] \in {"n", "N"}

\* candidate.match(/```(?:json)?\s*([\s\S]*?)```/i): where the capture
\* starts and where the closing fence starts; no match is << 0, 0 >>
fenceMatch(s) ==
    LET open  == IndexOfFrom(s, Fence, 1)
        from  == IF open = 0 THEN 0
                 ELSE IF HasJsonTag(s, open + 3) THEN open + 7
                 ELSE open + 3
        close == IF open = 0 THEN 0 ELSE IndexOfFrom(s, Fence, from)
    IN  IF close = 0 THEN << 0, 0 >>
        ELSE << SkipSpace(SubSeq(s, 1, close - 1), from), close >>

HasFence(s) == fenceMatch(s)[2] # 0

\* fenceMatch[1].trim()
FenceCandidate(s) ==
    Trim(SubSeq(s, fenceMatch(s)[1], fenceMatch(s)[2] - 1))

\* firstBrace !== -1 && lastBrace !== -1 && lastBrace > firstBrace
HasBraces(s) ==
    /\ IndexOfFrom(s, << "{" >>, 1) # 0
    /\ LastIndexOf(s, "}") > IndexOfFrom(s, << "{" >>, 1)

\* candidate.slice(firstBrace, lastBrace + 1).trim()
BraceCandidate(s) ==
    Trim(SubSeq(s, IndexOfFrom(s, << "{" >>, 1), LastIndexOf(s, "}")))

\* candidate.replace(/[\u201C\u201D]/g, '"')
StraightQuotes(s) ==
    [i \in 1..Len(s) |-> IF s[i] \in {LQuote, RQuote} THEN "\"" ELSE s[i]]

\* candidate.replace(/\r\n/g, '\n')
UnixNewlines(s) ==
    KeepWhere(s, LAMBDA i : ~(s[i] = "\r" /\ At(s, i + 1, "\n")))

\* position i lies in a match of /,\s*([}\]])/ before its bracket
InTrailingComma(s, i) ==
    \E p \in 1..i :
        /\ s[p] = ","
        /\ \A k \in (p + 1)..i : IsSpace(s[k])
        /\ SkipSpace(s, p + 1) <= Len(s)
        /\ s[SkipSpace(s, p + 1)] \in {"}", "]"}

\* candidate.replace(/,\s*([}\]])/g, '$1')
NoTrailingCommas(s) == KeepWhere(s, LAMBDA i : ~InTrailingComma(s, i))

NormalizedCandidate(s) == NoTrailingCommas(UnixNewlines(StraightQuotes(s)))

\* s + '}'.repeat(n)
WithBraces(s, n) == s \o [i \in 1..n |-> "}"]

\* the first truthy tryParse(s + '}'.repeat(n)) for n = lo..hi, else null
FirstClosed(s, lo, hi) ==
    CHOOSE r \in
      { IF \A n \in lo..hi : ~Truthy(parsed[n]) THEN JsNull
        ELSE parsed[CHOOSE n \in lo..hi :
                        /\ Truthy(parsed[n])
                        /\ \A m \in lo..(n - 1) : ~Truthy(parsed[m])] :
          parsed \in {[n \in lo..hi |-> tryParse(WithBraces(s, n))]} } : TRUE

\* Math.min(candidate.length, 600)
ScanWindow == 600

MinSnippet == 10

\* Math.min(candidate.length, 2000) in the earlier revision of the parser
ScanWindowEarlier == 2000

\* the scan window of each revision of parseJsonStrictish: the one hoisted
\* to module scope in generate.js and the earlier one inside the handler
ParserRevisions == {"hoisted", "inline"}

ScanWindowOf(rev) == IF rev = "hoisted" THEN ScanWindow ELSE ScanWindowEarlier

\* a loop that walks down the whole candidate
maxAttemptsWhole(s, window) == Len(s)

\* const maxAttempts = Math.min(candidate.length, window)
maxAttempts(s, window) == IF Len(s) < window THEN Len(s) ELSE window

\* the progressive trimming loop from prefix length end downwards
RECURSIVE TrimLoop(_, _)
TrimLoop(s, end) ==
        IF end <= Len(s) - maxAttempts(s, ScanWindow) THEN JsNull
        ELSE CHOOSE r \in
               { IF Len(snippet) < MinSnippet THEN JsNull
                 ELSE CHOOSE r2 \in
                        { IF Truthy(parsed) THEN parsed
                          ELSE TrimLoop(s, end - 1) :
                            parsed \in {FirstClosed(snippet, 0, 4)} } : TRUE :
                   snippet \in {Trim(SubSeq(s, 1, end))} } : TRUE

\* position q opens a match of /"[^"]+"\s*:\s*[^,}\]]+$/
OpensDanglingField(s, q) ==
    /\ s[q] = "\""
    /\ LET q2 == IndexOfFrom(s, << "\"" >>, q + 1)
       IN  /\ q2 > q + 1
           /\ LET c == SkipSpace(s, q2 + 1)
              IN  /\ At(s, c, ":")
                  /\ c < Len(s)
                  /\ \A k \in (c + 1)..Len(s) : s[k] \notin {",", "}", "]"}

\* candidate.replace(/\s*"[^"]+"\s*:\s*[^,}\]]+$/s, '').trim(), and a
\* closing brace unless it ends with one
FallbackCandidate(s) ==
    LET opens == {q \in 1..Len(s) : OpensDanglingField(s, q)}
        cut   == IF opens = {} THEN s
                 ELSE SubSeq(s, 1, (CHOOSE q \in opens :
                                       \A r \in opens : q <= r) - 1)
        t     == Trim(cut)
    IN  IF t # EmptyStr /\ t[Len(t)] = "}" THEN t ELSE t \o << "}" >>

StrategyNames ==
    << "direct", "fence", "braces", "normalize", "append", "trim", "strip" >>

LastStrategy == Len(StrategyNames)

\* whether rung k is entered at all with candidate c: the fence and the
\* brace rungs have guards
StrategyApplies(k, c) ==
    CASE k = 2 -> HasFence(c)
      [] k = 3 -> HasBraces(c)
      [] OTHER -> TRUE

\* the value of `candidate` once rung k has been entered with candidate c
StrategyCandidate(k, c) ==
    CASE k = 2 -> FenceCandidate(c)
      [] k = 3 -> BraceCandidate(c)
      [] k = 4 -> NormalizedCandidate(c)
      [] OTHER -> c

\* what rung k finds, c being the candidate it has set: the value of its
\* first truthy parse, else a falsy value
StrategyResult(k, c) ==
    CASE k = 5 -> FirstClosed(c, 1, 6)
      [] k = 6 -> TrimLoop(c, Len(c))
      [] OTHER -> tryParse(IF k = 7 THEN FallbackCandidate(c) ELSE c)

\* the ladder from rung k on with candidate c: the first truthy result,
\* null when there is none
RECURSIVE Ladder(_, _)
Ladder(c, k) ==
    IF k > LastStrategy THEN JsNull
    ELSE IF ~StrategyApplies(k, c) THEN Ladder(c, k + 1)
    ELSE CHOOSE r \in
           { CHOOSE r2 \in
               { IF Truthy(parsed) THEN parsed ELSE Ladder(c2, k + 1) :
                   parsed \in {StrategyResult(k, c2)} } : TRUE :
               c2 \in {StrategyCandidate(k, c)} } : TRUE

\* if (!raw || typeof raw !== 'string') return null; then the ladder
parseJsonStrictish(raw) ==
    IF raw = EmptyStr THEN JsNull ELSE Ladder(FirstCandidate(raw), 1)

----------------------------------------------------------------------------
(* sanitizeToPrompt (pages/api/generate.js).                               *)

\* ^ under the m flag: the start of the text or of a line
LineStart(s, p) == p = 1 \/ s[p - 1] \in {"\n", "\r"}

\* $ under the m flag: the end of the text or of a line
LineEnd(s, p) == p = Len(s) + 1 \/ s[p] \in {"\n", "\r"}

IsAlnum(c) ==
    \/ IsDigit(c)
    \/ c \in {"a", "b", "c", "d", "e", "f", "g", "h", "i", "j", "k", "l", "m",
              "n", "o", "p", "q", "r", "s", "t", "u", "v", "w", "x", "y", "z"}
    \/ c \in {"A", "B", "C", "D", "E", "F", "G", "H", "I", "J", "K", "L", "M",
              "N", "O", "P", "Q", "R", "S", "T", "U", "V", "W", "X", "Y", "Z"}

\* the first position from i on whose character fails Class
SkipWhile(s, i, Class(_)) ==
    CHOOSE j \in i..(Len(s) + 1) :
        /\ j = Len(s) + 1 \/ ~Class(s[j])
        /\ \A k \in i..(j - 1) : Class(s[k])

\* the first position of the white space that ends just before q, not
\* before lo
SpaceBefore(s, lo, q) ==
    CHOOSE j \in lo..q :
        /\ \A k \in j..(q - 1) : IsSpace(s[k])
        /\ j = lo \/ ~IsSpace(s[j - 1])

\* a match of /^```(?:[a-zA-Z0-9]+)?\s*[\r\n]?([\s\S]*?)\s*```$/m that
\* starts at p: << capture start, capture end + 1, closing fence >>
FencedAt(s, p) ==
    LET from  == SkipSpace(s, SkipWhile(s, p + 3, IsAlnum))
        close == {q \in from..(Len(s) - 2) :
                     StartsAt(s, q, Fence) /\ LineEnd(s, q + 3)}
        q     == CHOOSE q \in close : \A r \in close : q <= r
    IN  IF LineStart(s, p) /\ StartsAt(s, p, Fence) /\ close # {}
        THEN << from, SpaceBefore(s, from, q), q >>
        ELSE << 0, 0, 0 >>

\* t.replace(/^```(?:[a-zA-Z0-9]+)?\s*[\r\n]?([\s\S]*?)\s*```$/m, '$1')
StripFence(s) ==
    LET starts == {p \in 1..Len(s) : FencedAt(s, p)[3] # 0}
        p      == CHOOSE p \in starts : \A r \in starts : p <= r
        m      == FencedAt(s, p)
    IN  IF starts = {} THEN s
        ELSE SubSeq(s, 1, p - 1) \o SubSeq(s, m[1], m[2] - 1)
                 \o SubSeq(s, m[3] + 3, Len(s))

\* position i lies in a match of /\n?---+\n?/: a run of three or more dashes
InRule(s, i) ==
    /\ s[i] = "-"
    /\ \E p \in {i - 2, i - 1, i} :
          p >= 1 /\ p + 2 <= Len(s) /\ \A k \in p..(p + 2) : s[k] = "-"

\* t.split(/\n?---+\n?/g).map(p => p.trim()).filter(Boolean), last part;
\* t itself when no part is left
LastPart(s) ==
    LET inked == {i \in 1..Len(s) : ~InRule(s, i) /\ ~IsSpace(s[i])}
        e     == CHOOSE i \in inked : \A j \in inked : j <= i
        lo    == CHOOSE b \in 1..e :
                    /\ \A k \in b..e : ~InRule(s, k)
                    /\ b = 1 \/ InRule(s, b - 1)
        hi    == CHOOSE b \in e..Len(s) :
                    /\ \A k \in e..b : ~InRule(s, k)
                    /\ b = Len(s) \/ InRule(s, b + 1)
    IN  IF inked = {} THEN s ELSE Trim(SubSeq(s, lo, hi))

\* if (t.includes('---')) ... t = parts[parts.length - 1]
KeepLastPart(s) ==
    IF \E i \in 1..Len(s) : StartsAt(s, i, << "-", "-", "-" >>)
    THEN LastPart(s) ELSE s

UpperCase(w) ==
    [i \in 1..Len(w) |->
        CASE w[i] = "f" -> "F" [] w[i] = "i" -> "I" [] w[i] = "n" -> "N"
          [] w[i] = "a" -> "A" [] w[i] = "l" -> "L" [] w[i] = "p" -> "P"
          [] w[i] = "r" -> "R" [] w[i] = "o" -> "O" [] w[i] = "m" -> "M"
          [] w[i] = "t" -> "T" [] OTHER -> w[i]]

\* the word w, in any case, starts at position i of s
WordAt(s, i, w) ==
    /\ i >= 1
    /\ i + Len(w) - 1 <= Len(s)
    /\ \A k \in 1..Len(w) : s[i + k - 1] \in {w[k], UpperCase(w)[k]}

WordFinal == << "f", "i", "n", "a", "l" >>
WordPrompt == << "p", "r", "o", "m", "p", "t" >>

\* (?:^|\n)\s* ends just before position i
AfterLineBreak(s, i) ==
    \E b \in 1..i :
        /\ \A k \in b..(i - 1) : IsSpace(s[k])
        /\ b = 1 \/ s[b - 1] = "\n"

\* 'prompt' at position w is the label word of a match of
\* /(?:^|\n)\s*(?:final\s*)?prompt[^:]*:\s*/i
IsLabel(s, w) ==
    /\ WordAt(s, w, WordPrompt)
    /\ \E c \in (w + 6)..Len(s) : s[c] = ":"
    /\ \/ AfterLineBreak(s, w)
       \/ \E f \in 1..(w - 5) :
             /\ WordAt(s, f, WordFinal)
             /\ \A k \in (f + 5)..(w - 1) : IsSpace(s[k])
             /\ AfterLineBreak(s, f)

\* t.slice(labelMatch.index + labelMatch[0].length).trim()
AfterLabel(s) ==
    LET labels == {w \in 1..Len(s) : IsLabel(s, w)}
        w      == CHOOSE w \in labels : \A v \in labels : w <= v
        colon  == IndexOfFrom(s, << ":" >>, w + 6)
    IN  IF labels = {} THEN s
        ELSE Trim(SubSeq(s, colon + 1, Len(s)))

\* position i lies in a match of /^#+\s*/m
InHeading(s, i) ==
    \E p \in 1..i :
        /\ s[p] = "#"
        /\ LineStart(s, p)
        /\ \E h \in p..i :
              /\ \A k \in p..h : s[k] = "#"
              /\ \A k \in (h + 1)..i : IsSpace(s[k])
              /\ h = i \/ h = Len(s) \/ s[h + 1] # "#"

\* .replace(/^#+\s*/gm, '')
NoHeadings(s) ==
    IF Includes(s, "#") THEN KeepWhere(s, LAMBDA i : ~InHeading(s, i)) ELSE s

IsLineBreak(c) == c \in {"\n", "\r"}

\* the first match of d(.*?)d that starts at from or later:
\* << opening d, closing d >>, << 0, 0 >> when there is none
PairFrom(s, d, from) ==
    LET opens == {p \in from..Len(s) :
                    /\ StartsAt(s, p, d)
                    /\ \E q \in (p + Len(d))..Len(s) :
                          /\ StartsAt(s, q, d)
                          /\ \A k \in (p + Len(d))..(q - 1) : ~IsLineBreak(s[k])}
        p     == CHOOSE p \in opens : \A r \in opens : p <= r
        q     == CHOOSE q \in (p + Len(d))..Len(s) :
                    /\ StartsAt(s, q, d)
                    /\ \A r \in (p + Len(d))..(q - 1) : ~StartsAt(s, r, d)
    IN  IF opens = {} THEN << 0, 0 >> ELSE << p, q >>

\* .replace(/d(.*?)d/g, '$1') from position `from` of s on
RECURSIVE Unwrap(_, _, _)
Unwrap(s, d, from) ==
    LET m == PairFrom(s, d, from)
        n == Len(d)
    IN  IF m[1] = 0 THEN s
        ELSE Unwrap(SubSeq(s, 1, m[1] - 1) \o SubSeq(s, m[1] + n, m[2] - 1)
                        \o SubSeq(s, m[2] + n, Len(s)),
                    d, m[2] - n)

\* .replace(/\*\*(.*?)\*\*/g, '$1')
NoBold(s) == IF Includes(s, "*") THEN Unwrap(s, << "*", "*" >>, 1) ELSE s

\* .replace(/\*(.*?)\*/g, '$1')
NoItalics(s) == IF Includes(s, "*") THEN Unwrap(s, << "*" >>, 1) ELSE s

\* position i lies in a match of /^[>\-\s]*\*/m
InBullet(s, i) ==
    \E e \in i..Len(s) :
        /\ s[e] = "*"
        /\ \E p \in 1..i :
              /\ LineStart(s, p)
              /\ \A k \in p..(e - 1) : s[k] \in {">", "-"} \/ IsSpace(s[k])

\* .replace(/^[>\-\s]*\*/gm, '')
NoBullets(s) ==
    IF Includes(s, "*") THEN KeepWhere(s, LAMBDA i : ~InBullet(s, i)) ELSE s

\* position i lies in a match of /^>\s*/m
InQuote(s, i) ==
    \E p \in 1..i :
        /\ s[p] = ">"
        /\ LineStart(s, p)
        /\ \A k \in (p + 1)..i : IsSpace(s[k])

\* .replace(/^>\s*/gm, '')
NoQuotes(s) ==
    IF Includes(s, ">") THEN KeepWhere(s, LAMBDA i : ~InQuote(s, i)) ELSE s

\* t.replace(/\s+/g, ' ')
CollapseSpace(s) ==
    LET kept == SelectSeq([i \in 1..Len(s) |-> i],
                          LAMBDA i : ~(IsSpace(s[i]) /\ i > 1 /\ IsSpace(s[i - 1])))
    IN  [k \in 1..Len(kept) |-> IF IsSpace(s[kept[k]]) THEN " " ELSE s[kept[k]]]

\* if (t.length > 1200) t = t.slice(0, 1200)
MaxPromptLength == 1200

\* const lastSpace = t.lastIndexOf(' '); if (lastSpace > 0) t = t.slice(0, lastSpace)
CutAtLastSpace(t) ==
    LET lastSpace == LastIndexOf(t, " ") - 1
    IN  IF lastSpace > 0 THEN SubSeq(t, 1, lastSpace) ELSE t

\* if (t.length > 1200) { ... }
Truncate(t) ==
    IF Len(t) > MaxPromptLength
    THEN CutAtLastSpace(SubSeq(t, 1, MaxPromptLength))
    ELSE t

\* the text before the length limit is applied
Collapsed(raw) ==
    Trim(CollapseSpace(
        NoQuotes(NoBullets(NoItalics(NoBold(NoHeadings(
            AfterLabel(KeepLastPart(Trim(StripFence(Trim(raw))))))))))))

sanitizeToPrompt(raw) == Truncate(Collapsed(raw))

----------------------------------------------------------------------------
(* The model outputs parseJsonStrictish is run on.                         *)

SceneObject ==
    << << << "s", "c", "e", "n", "e" >>, << "\"", "a", " ", "f", "o", "r", "e", "s", "t", "\"" >> >>,
       << << "s", "t", "y", "l", "e" >>, << "\"", "p", "a", "i", "n", "t", "e", "r", "l", "y", "\"" >> >> >>

CountObject ==
    << << << "a" >>, << "1" >> >>,
       << << "b" >>, << "1", "2", "3" >> >> >>

NestedObject ==
    << << << "a" >>, << "{", "\"", "b", "\"", ":", "1", ",", "\"", "c", "\"", ":", "2", "}" >> >>,
       << << "d" >>, << "t", "r", "u", "e" >> >> >>

ListObject ==
    << << << "l" >>, << "[", "1", ",", "2", "]" >> >>,
       << << "s" >>, << "\"", "a", ",", "b", "}", "\"" >> >>,
       << << "n" >>, << "n", "u", "l", "l" >> >> >>

CutObjects == { SceneObject, CountObject, NestedObject, ListObject }

ProseNumber == << "4", "2" >>

ProseList == << "[", "1", ",", " ", "2", "]" >>

ProseQuoted == << "\"", "a", " ", "q", "u", "o", "t", "e", "d", " ", "s", "t", "r", "i", "n", "g", "\"", " ", "i", "s", " ", "s", "a", "i", "d" >>

ProsePlain == << "h", "e", "l", "l", "o", " ", "w", "o", "r", "l", "d", " ", "t", "h", "i", "s", " ", "i", "s", " ", "p", "r", "o", "s", "e" >>

ProseCount == << "1", "2", "3", "4", "5", "6", "7", "8", "9", "0", " ", "a", "p", "p", "l", "e", "s" >>

FencedTrailingComma == << "\\x60", "\\x60", "\\x60", "j", "s", "o", "n", "\n", "{", "\"", "p", "r", "o", "m", "p", "t", "\"", ":", "\"", "h", "e", "l", "l", "o", "\"", ",", "}", "\n", "\\x60", "\\x60", "\\x60" >>

WrappedObject == << "H", "e", "r", "e", ":", " ", "{", "\"", "a", "\"", ":", " ", "[", "1", ",", " ", "2", "]", "}", " ", "o", "k" >>

CurlyQuoted == << "{", "\\u201C", "a", "\\u201D", ":", "1", ",", "\r", "\n", "\"", "b", "\"", ":", "2", " ", ",", " ", "}" >>

ZeroText == << "0" >>

FencedFalse == << "\\x60", "\\x60", "\\x60", "f", "a", "l", "s", "e", "\\x60", "\\x60", "\\x60", " ", "{", "\"", "a", "\"", ":", "1", "}" >>

EmptyStringText == << "\"", "\"" >>

BomObject == << "\\uFEFF", "{", "\"", "a", "\"", ":", "1", "}" >>

OpenFence == << "\\x60", "\\x60", "\\x60", "j", "s", "o", "n", " ", "{", "\"", "a", "\"", ":", "1", "}" >>

ParseTexts ==
    { EmptyStr, ProseNumber,
      ProseList,
      ProseQuoted,
      ProsePlain,
      ProseCount,
      FencedTrailingComma,
      WrappedObject,
      CurlyQuoted,
      ZeroText,
      FencedFalse,
      EmptyStringText,
      BomObject,
      OpenFence }

\* "key":value
MemberText(m) == << "\"" >> \o m[1] \o << "\"", ":" >> \o m[2]

\* the text of an object whose members are ms, as a model emits it
ObjectText(ms) ==
    << "{" >> \o Join([i \in 1..Len(ms) |-> MemberText(ms[i])], << "," >>)
              \o << "}" >>

\* the position in ObjectText(ms) of the last character of member i
MemberEnd(ms, i) == Len(ObjectText(SubSeq(ms, 1, i))) - 1

NoCut == [members |-> << >>, cut |-> 0]

\* n times the character c
Run(n, c) == [i \in 1..n |-> c]

\* two words of a and b letters
Words(a, b) == Run(a, "a") \o << " " >> \o Run(b, "b")

FencedBold ==
    Fence \o << "t", "e", "x", "t", "\n", "A", " ", "*", "b", "o", "l", "d",
                "*", " ", "f", "o", "x", "\n" >> \o Fence
LabelledBold ==
    << "H", "i", "\n", "F", "i", "n", "a", "l", " ", "P", "r", "o", "m", "p",
       "t", ":", " ", "a", " ", "*", "*", "r", "e", "d", "*", "*", " ", "f",
       "o", "x" >>
RuledHeading ==
    << "n", "o", "t", "e", "\n", "-", "-", "-", "\n", "#", " ", "T", "i",
       "t", "l", "e", "\n", ">", " ", "q", " ", " ", "t" >>
Bulleted ==
    << "-", " ", "*", " ", "o", "n", "e", "\n", "*", " ", "t", "w", "o" >>

RepeatedLabel ==
    << "P", "r", "o", "m", "p", "t", ":", " ", "F", "i", "n", "a", "l", " ",
       "p", "r", "o", "m", "p", "t", ":", " ", "a", " ", "f", "o", "x" >>
QuotedHeading == << ">", " ", "#", " ", "a" >>
NestedEmphasis ==
    << "*", "*", "a", " ", "*", "b", "*", " ", "c", "*", "*" >>
SeveralRules ==
    << "a", "\n", "-", "-", "-", "\n", "b", "\n", "-", "-", "-", "-", "\n", "c" >>

\* model outputs in text mode: short ones with markup, and long ones whose
\* only space lies at, next to, far before or nowhere before the limit
SanitizeTexts ==
    { FencedBold, LabelledBold, RuledHeading, Bulleted, ProsePlain, EmptyStr,
      RepeatedLabel, QuotedHeading, NestedEmphasis, SeveralRules,
      Run(MaxPromptLength, "a"),
      Run(MaxPromptLength + 1, "a"),
      Run(MaxPromptLength + 100, "a"),
      Words(MaxPromptLength \div 2, MaxPromptLength),
      Words(MaxPromptLength, 50),
      Words(MaxPromptLength - 1, 50),
      Words(5, MaxPromptLength + 100),
      << "#", " " >> \o Words(MaxPromptLength - 10, 50) \o << "\n" >>
          \o Words(3, 4) }

\* a model output: a text, and for an output cut off by the output budget
\* the object it was cut from and the length that was emitted
ParseInputs ==
    { [raw |-> t, from |-> NoCut] : t \in ParseTexts } \cup
    UNION { { [raw |-> SubSeq(ObjectText(ms), 1, c),
               from |-> [members |-> ms, cut |-> c]] :
                 c \in 1..(Len(ObjectText(ms)) - 1) } : ms \in CutObjects }

\* open text that never parses, longer than either scan window
LongOpenText == << "{" >> \o Run(ScanWindowEarlier + 100, "a")

\* candidates the trimming stage is entered with
TrimTexts ==
    { LongOpenText, ProsePlain, ProseCount,
      << "{", "\"", "a", "\"", ":", "1", ",", "\"", "b", "\"", ":", "[", "2", ",", "3" >>,
      Run(MinSnippet, "a"), Run(MinSnippet - 1, "a") }

InitText ==
    /\ env = DirectEnv
    /\ build = "per-route"
    /\ traffic = {}
    /\ now = 0
    /\ buckets = [l \in Limiters |-> NoBuckets]
    /\ inflight = EmptyBag
    /\ log = EmptyBag
    /\ \/ \E in \in ParseInputs :
             probe = [pc |-> "parse", raw |-> in.raw, from |-> in.from,
                      candidate |-> EmptyStr, k |-> 0, tried |-> << >>]
       \/ \E t \in SanitizeTexts : probe = [pc |-> "sanitize", raw |-> t]
    /\ probeOut = Idle

Returned(v) == [pc |-> "returned", value |-> v]

\* a rung that was entered, and the candidate it set
Attempt(k, c) == [rung |-> k, candidate |-> c]

\* the rung after rung k
NextStrategySkips(k) == k + 2

NextStrategy(k) == k + 1

\* if (!raw || typeof raw !== 'string') return null
ParseEnter ==
    /\ probe.pc = "parse"
    /\ probe.k = 0
    /\ probeOut = Idle
    /\ IF probe.raw = EmptyStr
       THEN probeOut' = Returned(JsNull) /\ UNCHANGED probe
       ELSE /\ probe' = [probe EXCEPT !.k = 1,
                                      !.candidate = FirstCandidate(probe.raw)]
            /\ UNCHANGED probeOut
    /\ UNCHANGED << env, build, traffic, now, buckets, inflight, log >>

\* rung k of the ladder: skipped when its guard fails, else it sets the
\* candidate, tries its parse and returns a truthy value at once
TryStrategy(k) ==
    /\ probe.pc = "parse"
    /\ probe.k = k
    /\ probeOut = Idle
    /\ IF ~StrategyApplies(k, probe.candidate)
       THEN /\ probe' = [probe EXCEPT !.k = NextStrategy(k)]
            /\ UNCHANGED probeOut
       ELSE \E c \in {StrategyCandidate(k, probe.candidate)} :
            \E v \in {StrategyResult(k, c)} :
               IF Truthy(v)
               THEN /\ probe' = [probe EXCEPT !.candidate = c,
                                              !.tried = Append(@, Attempt(k, c))]
                    /\ probeOut' = Returned(v)
               ELSE /\ probe' = [probe EXCEPT !.candidate = c,
                                              !.tried = Append(@, Attempt(k, c)),
                                              !.k = NextStrategy(k)]
                    /\ UNCHANGED probeOut
    /\ UNCHANGED << env, build, traffic, now, buckets, inflight, log >>

\* return null, past the last rung
ParseGiveUp ==
    /\ probe.pc = "parse"
    /\ probe.k > LastStrategy
    /\ probeOut = Idle
    /\ probeOut' = Returned(JsNull)
    /\ UNCHANGED << env, build, traffic, now, buckets, inflight, log, probe >>

\* finalPrompt = sanitizeToPrompt(rawContent)
SanitizeCall ==
    /\ probe.pc = "sanitize"
    /\ probeOut = Idle
    /\ probeOut' = Returned(sanitizeToPrompt(probe.raw))
    /\ UNCHANGED << env, build, traffic, now, buckets, inflight, log, probe >>

\* sanitizeToPrompt applied to its own output
SanitizeAgain ==
    /\ probe.pc = "sanitize"
    /\ probeOut.pc = "returned"
    /\ probeOut' = [pc |-> "resanitized", value |-> probeOut.value,
                    again |-> sanitizeToPrompt(probeOut.value)]
    /\ UNCHANGED << env, build, traffic, now, buckets, inflight, log, probe >>

\* the trimming loop was left without a value
Left(why) == [pc |-> "left", why |-> why]

\* how many of the parses tryParse(snippet), tryParse(snippet + '}'), ...
\* are made until one is truthy
TriesUntilTruthy(parsed) ==
    IF \A n \in DOMAIN parsed : ~Truthy(parsed[n]) THEN Cardinality(DOMAIN parsed)
    ELSE 1 + CHOOSE n \in DOMAIN parsed :
                 /\ Truthy(parsed[n])
                 /\ \A m \in DOMAIN parsed : m < n => ~Truthy(parsed[m])

\* one pass of the body of the trimming loop: the loop test, the snippet
\* and its length test, then the parse of the snippet and of the snippet
\* with 1 to 4 closing braces
TrimPosition ==
    /\ probe.pc = "trim"
    /\ probeOut = Idle
    /\ IF probe.end <= Len(probe.candidate)
                          - maxAttempts(probe.candidate, probe.window)
       THEN probeOut' = Left("window") /\ UNCHANGED probe
       ELSE \E snippet \in {Trim(SubSeq(probe.candidate, 1, probe.end))} :
            IF Len(snippet) < MinSnippet
            THEN probeOut' = Left("short") /\ UNCHANGED probe
            ELSE \E parsed \in {[n \in 0..4 |-> tryParse(WithBraces(snippet, n))]} :
                 \E tries \in {TriesUntilTruthy(parsed)} :
                    /\ probe' = [probe EXCEPT
                                   !.positions = @ + 1,
                                   !.attempts = @ + tries,
                                   !.last = tries,
                                   !.shortest = IF Len(snippet) < @
                                                THEN Len(snippet) ELSE @,
                                   !.end = IF Truthy(parsed[tries - 1])
                                           THEN @ ELSE @ - 1]
                    /\ IF Truthy(parsed[tries - 1])
                       THEN probeOut' = Returned(parsed[tries - 1])
                       ELSE UNCHANGED probeOut
    /\ UNCHANGED << env, build, traffic, now, buckets, inflight, log >>

NextText ==
    \/ ParseEnter
    \/ \E k \in 1..LastStrategy : TryStrategy(k)
    \/ ParseGiveUp
    \/ SanitizeCall
    \/ SanitizeAgain

SpecText == InitText /\ [][NextText]_vars

----------------------------------------------------------------------------
(* parseJsonStrictish: what it returns and in which order it tries.        *)

ParseReturned == probe.pc = "parse" /\ probeOut.pc = "returned"

\* C12: for every input text with no '{' and no '}' (plain prose, also
\* prose that begins with a number, a quoted string or a bracketed list)
\* parseJsonStrictish returns null.
C12_ProseGivesNull ==
    (ParseReturned /\ ~Includes(probe.raw, "{") /\ ~Includes(probe.raw, "}"))
        => probeOut.value = JsNull

\* the members of the object that were emitted whole before the cut
CompleteMembers(from) ==
    {i \in 1..Len(from.members) : MemberEnd(from.members, i) <= from.cut}

\* the object made of exactly those members, each with its own value
CompleteFields(from) ==
    [key \in {from.members[i][1] : i \in CompleteMembers(from)} |->
        tryParse(from.members[CHOOSE i \in CompleteMembers(from) :
                                  from.members[i][1] = key][2])]

\* C13: for a valid JSON object text cut off at any position,
\* parseJsonStrictish returns null or an object that holds exactly the
\* fields emitted whole before the cut, each with its original value, and
\* no field made from the incomplete trailing fragment.
C13_TruncationKeepsCompleteFields ==
    (ParseReturned /\ probe.from.cut > 0) =>
        \/ probeOut.value = JsNull
        \/ probeOut.value = << "obj", CompleteFields(probe.from) >>

\* some text rung e handed to JSON.parse parsed (truthy or not)
RungParses(e) ==
    CASE e.rung = 5 ->
           \E n \in 1..6 : JsonParses(WithBraces(e.candidate, n))
      [] e.rung = 6 ->
           \E end \in 1..Len(e.candidate), n \in 0..4 :
              /\ end > Len(e.candidate) - ScanWindow
              /\ \A longer \in end..Len(e.candidate) :
                    Len(Trim(SubSeq(e.candidate, 1, longer))) >= MinSnippet
              /\ JsonParses(WithBraces(Trim(SubSeq(e.candidate, 1, end)), n))
      [] e.rung = 7 -> JsonParses(FallbackCandidate(e.candidate))
      [] OTHER -> JsonParses(e.candidate)

RungTruthy(e) == Truthy(StrategyResult(e.rung, e.candidate))

TriedInOrder ==
    \A i, j \in DOMAIN probe.tried :
        i < j => probe.tried[i].rung < probe.tried[j].rung

\* C14 as stated: the strategies are tried in the fixed order direct,
\* fence, braces, normalize, append, trim, strip; the result of the first
\* strategy that parses is returned, no later strategy is tried after it,
\* and null is returned only when all have failed.
C14_FirstParseReturned ==
    probe.pc = "parse" =>
        /\ TriedInOrder
        /\ \A i \in DOMAIN probe.tried :
              RungParses(probe.tried[i]) =>
                 /\ i = Len(probe.tried)
                 /\ probeOut = Returned(StrategyResult(probe.tried[i].rung,
                                                       probe.tried[i].candidate))

\* the candidate in force when rung k is reached
CandidateBefore(k) ==
    LET earlier == {i \in DOMAIN probe.tried : probe.tried[i].rung < k}
    IN  IF earlier = {} THEN FirstCandidate(probe.raw)
        ELSE probe.tried[CHOOSE i \in earlier : \A j \in earlier : j <= i].candidate

TriedRungs == {probe.tried[i].rung : i \in DOMAIN probe.tried}

\* C14 amended: the strategies are tried in the fixed order (the fence and
\* the brace strategy only when the text has a fence, has braces); the
\* result of the first strategy whose parse gives a truthy value is
\* returned and no later strategy is tried; a parse that gives null, false,
\* 0 or '' counts as failed; null is returned only when no strategy gave a
\* truthy value.
C14_FirstTruthyReturned ==
    probe.pc = "parse" =>
        /\ TriedInOrder
        /\ \A i \in DOMAIN probe.tried :
              RungTruthy(probe.tried[i]) =>
                 /\ i = Len(probe.tried)
                 /\ probeOut = Returned(StrategyResult(probe.tried[i].rung,
                                                       probe.tried[i].candidate))
        /\ 2 \in TriedRungs => HasFence(CandidateBefore(2))
        /\ 3 \in TriedRungs => HasBraces(CandidateBefore(3))
        /\ probeOut.pc = "returned" =>
              LET last == IF Truthy(probeOut.value)
                          THEN probe.tried[Len(probe.tried)].rung
                          ELSE LastStrategy
              IN  /\ ~Truthy(probeOut.value) => probeOut.value = JsNull
                  /\ probe.raw # EmptyStr =>
                        \A k \in 1..last :
                           k \in TriedRungs <=>
                              CASE k = 2 -> HasFence(CandidateBefore(2))
                                [] k = 3 -> HasBraces(CandidateBefore(3))
                                [] OTHER -> TRUE

\* the fenced object with a trailing comma: direct, fence and braces fail,
\* the normalized text parses and is returned
C14_Witness ==
    /\ ParseReturned
    /\ probe.raw = FencedTrailingComma
    /\ [i \in DOMAIN probe.tried |-> probe.tried[i].rung] = << 1, 2, 3, 4 >>
    /\ probeOut.value =
          << "obj", (<< "p", "r", "o", "m", "p", "t" >> :>
                        << "str", << "h", "e", "l", "l", "o" >> >>) >>

----------------------------------------------------------------------------
(* sanitizeToPrompt: the length limit.                                     *)

SanitizeReturned == probe.pc = "sanitize" /\ probeOut.pc = "returned"

Truncated == Len(probeOut.value) < Len(Collapsed(probe.raw))

\* C20: the output of sanitizeToPrompt is at most 1200 characters long, and
\* when it was truncated the character that followed it in the
\* whitespace-collapsed text is a space, so it never ends in a partial word,
\* also when the text has no space near or before position 1200.
C20_CutAtWordBoundary ==
    SanitizeReturned =>
        /\ Len(probeOut.value) <= MaxPromptLength
        /\ Truncated =>
              Collapsed(probe.raw)[Len(probeOut.value) + 1] = " "

----------------------------------------------------------------------------
(* The handler bodies: pages/api/generate.js (both revisions in the file), *)
(* pages/api/surprise.js and its later revision.                           *)

\* "generate": the handler that post-processes with parseJsonStrictish and
\* sanitizeToPrompt; "generate-structured": the one that asks for a JSON
\* schema and validates with ensureJsonPrompt / ensureTextPrompt;
\* "surprise" and "surprise-structured" likewise
Revisions ==
    {"generate", "generate-structured", "surprise", "surprise-structured"}

RouteOf(rev) ==
    IF rev \in {"generate", "generate-structured"} THEN "generate"
    ELSE "surprise"

\* const rateLimiter = RateLimiterMemory ? new RateLimiterMemory(...) : null
\* in surprise.js; the other revisions import the package unconditionally
LimiterStates(rev) ==
    IF rev = "surprise" THEN {"loaded", "null"} ELSE {"loaded"}

ApiKeys == {"", "sk-or-key"}

\* what the error body of the upstream service says
UpstreamMessages == {"No auth credentials found for key sk-or-key"}

\* the message of the exception a failed fetch or a failed body read throws
AbortMessage == "This operation was aborted"
FetchMessage == "fetch failed"
SyntaxMessage == "Unexpected token < in JSON at position 0"
ExceptionMessages == {AbortMessage, FetchMessage, SyntaxMessage}

Missing == << "undefined" >>

PromptObjectText ==
    << "{", "\"", "p", "r", "o", "m", "p", "t", "\"", ":", "\"", "a", " ",
       "f", "o", "x", "\"", "}" >>
BlankPromptText ==
    << "{", "\"", "p", "r", "o", "m", "p", "t", "\"", ":", "\"", " ", "\"", "}" >>
BlankText == << " ", " " >>

\* data.choices[0].message.content of a 200 answer
Contents ==
    { Missing, EmptyStr, BlankText, ProsePlain, LabelledBold, ProseNumber,
      ProseList, ObjectText(SceneObject), ObjectText(CountObject),
      PromptObjectText, BlankPromptText, FencedTrailingComma }

Settled(kind, status, message, content) ==
    [kind |-> kind, status |-> status, message |-> message, content |-> content]

\* how one call of the model service can end: the timer aborts it, the
\* network fails, it answers with an error status (with or without a JSON
\* error body), it answers 200 with a body that is no JSON, or 200 with a
\* completion
Upstreams ==
    { Settled("abort", 0, "", Missing), Settled("network", 0, "", Missing),
      Settled("garbled", 200, "", Missing) }
    \cup { Settled("http", s, m, Missing) :
             s \in {401, 402, 429, 500}, m \in UpstreamMessages \cup {""} }
    \cup { Settled("http", 200, "", c) : c \in Contents }

Bodies == {"idea", "blank", "oversize"}

Failure(status, error, message) ==
    [status |-> status, body |-> [error |-> error, message |-> message]]

FailureBare(status, error) == [status |-> status, body |-> [error |-> error]]

FailureDetailed(status, error, details) ==
    [status |-> status, body |-> [error |-> error, details |-> details]]

\* res.status(200).json({ success: true, prompt: finalPrompt, usage }); the
\* usage field is handed on from the upstream body and left out here
Success(prompt) ==
    [status |-> 200, body |-> [success |-> TRUE, prompt |-> prompt]]

\* res.status(200).json({ prompt, ... }) of the surprise route
SuccessBare(prompt) == [status |-> 200, body |-> [prompt |-> prompt]]

TooManyRequests ==
    Failure(429, "Too many requests", "Please wait before trying again.")

ExternalServiceError ==
    Failure(500, "External service error",
            "The AI service is currently unavailable. Please try again later.")

InvalidStructure ==
    Failure(500, "Invalid response",
            "Received an invalid response from the AI service. Please try again.")

MalformedJson ==
    Failure(500, "Invalid response",
            "The AI service returned a malformed JSON response. Please try again.")

MalformedResponse ==
    Failure(500, "Invalid response",
            "The AI service returned a malformed response. Please try again.")

InvalidPayload ==
    Failure(500, "Invalid response",
            "The AI service returned an invalid response. Please try again.")

EmptyResponse ==
    Failure(500, "Empty response",
            "The AI service returned an empty response. Please try again with different input.")

\* the await of fetch throws
CallThrowsNever(up) == FALSE

CallThrows(up) == up.kind \in {"abort", "network"}

\* the exception it throws
Thrown(up) ==
    CASE up.kind = "abort" -> [name |-> "AbortError", message |-> AbortMessage]
      [] up.kind = "network" -> [name |-> "TypeError", message |-> FetchMessage]
      [] OTHER -> [name |-> "SyntaxError", message |-> SyntaxMessage]

\* response.ok
ResponseOk(up) == up.status >= 200 /\ up.status <= 299

\* the branches on openRouterResponse.status of a response that is not ok
StatusFailure(up) ==
    CASE up.status = 401 ->
           Failure(500, "Authentication error",
                   "Invalid API credentials. Please contact the administrator.")
      [] up.status = 429 ->
           Failure(429, "Rate limit exceeded",
                   "Too many requests. Please wait a moment before trying again.")
      [] up.status = 402 ->
           Failure(500, "Billing issue",
                   "Service temporarily unavailable. Please try again later.")
      [] OTHER -> ExternalServiceError

\* the outer catch block of the generate handlers
OuterCatch(error) ==
    CASE error.name = "PayloadTooLarge" ->
           Failure(413, "Payload too large", "JSON body exceeds 1MB limit.")
      [] error.name = "AbortError" ->
           Failure(504, "Gateway timeout",
                   "The AI service took too long to respond. Please try again.")
      [] error.name = "TypeError" /\ error.message = FetchMessage ->
           Failure(500, "Network error",
                   "Unable to connect to the AI service. Please check your internet connection and try again.")
      [] OTHER ->
           Failure(500, "Internal server error",
                   "An unexpected error occurred. Please try again later.")

\* `HTTP ${response.status}`
HttpMessage(status) ==
    CASE status = 401 -> "HTTP 401" [] status = 402 -> "HTTP 402"
      [] status = 429 -> "HTTP 429" [] OTHER -> "HTTP 500"

\* the catch block of the surprise handlers
SurpriseCatch(error) ==
    IF error.name = "AbortError"
    THEN FailureBare(504, "The AI service timed out. Please try again.")
    ELSE FailureDetailed(500, "Failed to generate a surprise prompt.",
                         error.message)

\* what a handler did after its final call: the response and the
\* post-processing functions it invoked
Outcome(res, ran) == [res |-> res, ran |-> ran]

\* !data.choices[0].message.content
NoContent(up) == up.content \in {Missing, EmptyStr}

\* typeof finalPrompt === 'object'
IsObjectType(v) == v[1] \in {"obj", "arr"}

\* a match of /^```[\s\S]*?\n([\s\S]*?)```$/m that starts at p:
\* << capture start, closing fence >>, << 0, 0 >> when there is none
TestFenceAt(s, p) ==
    LET n     == IndexOfFrom(s, << "\n" >>, p + 3)
        close == {q \in (n + 1)..(Len(s) - 2) :
                     StartsAt(s, q, Fence) /\ LineEnd(s, q + 3)}
    IN  IF LineStart(s, p) /\ StartsAt(s, p, Fence) /\ n # 0 /\ close # {}
        THEN << n + 1, CHOOSE q \in close : \A r \in close : q <= r >>
        ELSE << 0, 0 >>

\* the positions .replace(/^```[\s\S]*?\n([\s\S]*?)```$/gm, '$1') removes,
\* matching from position `from` on: of every match the opening fence with
\* its line and the closing fence
RECURSIVE FenceCuts(_, _)
FenceCuts(s, from) ==
    LET starts == {p \in from..Len(s) : TestFenceAt(s, p)[2] # 0}
        p      == CHOOSE p \in starts : \A r \in starts : p <= r
        m      == TestFenceAt(s, p)
    IN  IF starts = {} THEN {}
        ELSE (p..(m[1] - 1)) \cup (m[2]..(m[2] + 2))
                 \cup FenceCuts(s, m[2] + 3)

LabelBoldPrompt ==
    << "*", "*", "p", "r", "o", "m", "p", "t", ":", "*", "*" >>
LabelPrompt == << "p", "r", "o", "m", "p", "t", ":" >>

\* the positions .replace(/^\s*label\s*/gmi, '') removes, matching from
\* position `from` on
RECURSIVE LabelCuts(_, _, _)
LabelCuts(s, label, from) ==
    LET starts == {p \in from..Len(s) :
                     LineStart(s, p) /\ WordAt(s, SkipSpace(s, p), label)}
        p      == CHOOSE p \in starts : \A r \in starts : p <= r
        e      == SkipSpace(s, SkipSpace(s, p) + Len(label))
    IN  IF starts = {} THEN {}
        ELSE (p..(e - 1)) \cup LabelCuts(s, label, e)

\* s without the characters at the positions in cuts
Without(s, cuts) ==
    IF cuts = {} THEN s ELSE KeepWhere(s, LAMBDA i : i \notin cuts)

\* the i flag for the letters of 'why it works'
FoldCase(s) ==
    [i \in 1..Len(s) |->
        CASE s[i] = "W" -> "w" [] s[i] = "H" -> "h" [] s[i] = "Y" -> "y"
          [] s[i] = "I" -> "i" [] s[i] = "T" -> "t" [] s[i] = "O" -> "o"
          [] s[i] = "R" -> "r" [] s[i] = "K" -> "k" [] s[i] = "S" -> "s"
          [] OTHER -> s[i]]

\* s.split(/word/i)[0], word given in lower case
BeforeWord(s, word) ==
    LET hit == IndexOfFrom(FoldCase(s), word, 1)
    IN  IF hit = 0 THEN s ELSE SubSeq(s, 1, hit - 1)

WhyItWorks ==
    << "w", "h", "y", " ", "i", "t", " ", "w", "o", "r", "k", "s", ":" >>

\* the clean-up of test mode: code fences, 'Prompt:' labels, the 'Why it
\* works:' section, bold and italic markers, outer white space
TestModeCleanup(rawContent) ==
    LET unfenced == Without(rawContent, FenceCuts(rawContent, 1))
        unbold   == Without(unfenced, LabelCuts(unfenced, LabelBoldPrompt, 1))
        unlabel  == Without(unbold, LabelCuts(unbold, LabelPrompt, 1))
        prompt   == BeforeWord(BeforeWord(unlabel, << "*", "*" >> \o WhyItWorks
                                                      \o << "*", "*" >>),
                               WhyItWorks)
    IN  Trim(NoItalics(NoBold(prompt)))

\* generate.js, first revision: from the final call to the response
GenerateAfterCall(h, up) ==
    IF CallThrows(up) THEN Outcome(ExternalServiceError, {})
    ELSE IF ~ResponseOk(up) THEN Outcome(StatusFailure(up), {})
    ELSE IF up.kind = "garbled" THEN Outcome(OuterCatch(Thrown(up)), {})
    ELSE IF NoContent(up) THEN Outcome(InvalidStructure, {})
    ELSE IF h.isJsonMode
    THEN CHOOSE o \in
           { IF ~Truthy(finalPrompt) THEN Outcome(MalformedJson, {"parseJsonStrictish"})
             ELSE IF ~IsObjectType(finalPrompt)
             THEN Outcome(EmptyResponse, {"parseJsonStrictish"})
             ELSE Outcome(Success(finalPrompt), {"parseJsonStrictish"}) :
               finalPrompt \in {parseJsonStrictish(Trim(up.content))} } : TRUE
    ELSE IF h.isTestMode
    THEN CHOOSE o \in
           { IF finalPrompt = EmptyStr
             THEN Outcome(EmptyResponse, {"testModeCleanup"})
             ELSE Outcome(Success(finalPrompt), {"testModeCleanup"}) :
               finalPrompt \in {TestModeCleanup(Trim(up.content))} } : TRUE
    ELSE CHOOSE o \in
           { IF finalPrompt = EmptyStr
             THEN Outcome(EmptyResponse, {"sanitizeToPrompt"})
             ELSE Outcome(Success(finalPrompt), {"sanitizeToPrompt"}) :
               finalPrompt \in {sanitizeToPrompt(Trim(up.content))} } : TRUE

\* parseStructuredContent: JSON.parse(extractMessageText(content)), which
\* throws on an empty text and on a text that is no JSON
StructuredContentThrows(content) == ~JsonParses(content)

\* typeof payload.prompt === 'string'
HasPromptText(payload) ==
    /\ payload[1] = "obj"
    /\ WordPrompt \in DOMAIN payload[2]
    /\ payload[2][WordPrompt][1] = "str"

\* ensureJsonPrompt throws
JsonPromptThrows(payload) == ~Truthy(payload) \/ ~IsObjectType(payload)

\* ensureTextPrompt throws
TextPromptThrows(payload) == JsonPromptThrows(payload) \/ ~HasPromptText(payload)

\* the success response of a route
Envelope(route, prompt) ==
    IF route = "generate" THEN Success(prompt) ELSE SuccessBare(prompt)

\* from the parsed payload to the response; json tells which validator runs
AfterPayload(payload, json, route) ==
    IF json
    THEN IF JsonPromptThrows(payload) THEN InvalidPayload
         ELSE Envelope(route, payload)
    ELSE IF TextPromptThrows(payload) THEN InvalidPayload
    ELSE IF Trim(payload[2][WordPrompt][2]) = EmptyStr THEN EmptyResponse
    ELSE Envelope(route, Trim(payload[2][WordPrompt][2]))

\* generate.js, second revision: from the final call to the response
StructuredAfterCall(h, up) ==
    IF CallThrows(up) THEN Outcome(ExternalServiceError, {})
    ELSE IF ~ResponseOk(up) THEN Outcome(StatusFailure(up), {})
    ELSE IF up.kind = "garbled" THEN Outcome(OuterCatch(Thrown(up)), {})
    ELSE IF NoContent(up) THEN Outcome(InvalidStructure, {})
    ELSE IF StructuredContentThrows(up.content)
    THEN Outcome(MalformedResponse, {"parseStructuredContent"})
    ELSE Outcome(AfterPayload(JsonParse(up.content), h.isJsonMode, "generate"),
                 {"parseStructuredContent",
                  IF h.isJsonMode THEN "ensureJsonPrompt" ELSE "ensureTextPrompt"})

\* what sanitizeToPrompt of surprise.js can give for a completion: the
\* empty text for an absent or blank one, otherwise the empty text or the
\* cleaned paragraph (its clean-up steps are not modelled)
SurpriseSanitized(content) ==
    IF content \in {Missing, EmptyStr, BlankText} THEN {EmptyStr}
    ELSE {EmptyStr, << "sanitized", content >>}

\* surprise.js: from the call to the responses it can send
SurpriseAfterCall(h, up) ==
    IF CallThrows(up) THEN {Outcome(SurpriseCatch(Thrown(up)), {})}
    ELSE IF ~ResponseOk(up)
    THEN {Outcome(SurpriseCatch(
             [name |-> "Error",
              message |-> IF up.message # "" THEN up.message
                          ELSE HttpMessage(up.status)]), {})}
    ELSE IF up.kind = "garbled" THEN {Outcome(SurpriseCatch(Thrown(up)), {})}
    ELSE { IF generatedPrompt = EmptyStr
           THEN Outcome(FailureBare(500,
                    "Empty or malformed response from model after processing."),
                    {"sanitizeToPrompt"})
           ELSE Outcome(SuccessBare(generatedPrompt), {"sanitizeToPrompt"}) :
             generatedPrompt \in SurpriseSanitized(up.content) }

\* the later surprise handler: from the call to the response
SurpriseStructuredAfterCall(h, up) ==
    IF CallThrows(up) THEN Outcome(SurpriseCatch(Thrown(up)), {})
    ELSE IF ~ResponseOk(up) THEN Outcome(StatusFailure(up), {})
    ELSE IF up.kind = "garbled" THEN Outcome(SurpriseCatch(Thrown(up)), {})
    ELSE IF NoContent(up) THEN Outcome(InvalidStructure, {})
    ELSE IF StructuredContentThrows(up.content)
    THEN Outcome(MalformedResponse, {"parseStructuredContent"})
    ELSE Outcome(AfterPayload(JsonParse(up.content), FALSE, "surprise"),
                 {"parseStructuredContent", "ensureTextPrompt"})

\* the outcomes of the handler of revision h.rev after its final call
AfterCall(h, up) ==
    CASE h.rev = "generate" -> {GenerateAfterCall(h, up)}
      [] h.rev = "generate-structured" -> {StructuredAfterCall(h, up)}
      [] h.rev = "surprise" -> SurpriseAfterCall(h, up)
      [] OTHER -> {SurpriseStructuredAfterCall(h, up)}


\* requests one behaviour handles, one after the other
MaxBodyRequests == 7

\* the sender of every request of these behaviours
BodyRequest(rev, method) == Request(RouteOf(rev), method, PeerA, Curl)

\* a handler invocation that has not started
NewInvocation(rev, limiter, n) ==
    [pc |-> "idle", rev |-> rev, rateLimiter |-> limiter, n |-> n,
     method |-> "POST", body |-> "idea", isJsonMode |-> FALSE,
     isMultiPrompt |-> FALSE, consumed |-> "none", before |-> 0,
     calls |-> 0, refined |-> FALSE, final |-> Settled("none", 0, "", Missing),
     ran |-> {}, isTestMode |-> FALSE, isVideoPrompt |-> FALSE,
     attachment |-> "none", tempFile |-> "none", imageBase64 |-> FALSE,
     stage1 |-> "none", carried |-> {}, systemPrompt |-> "none", sent |-> 0]

InitBody ==
    /\ \E k \in ApiKeys :
          env = [VERCEL |-> "", TRUST_PROXY |-> "", OPENROUTER_API_KEY |-> k]
    /\ build = "per-route"
    /\ traffic = {}
    /\ now = 0
    /\ buckets = [l \in Limiters |-> NoBuckets]
    /\ inflight = EmptyBag
    /\ log = EmptyBag
    /\ \E rev \in Revisions : \E limiter \in LimiterStates(rev) :
          probe = NewInvocation(rev, limiter, 0)
    /\ probeOut = Idle

MethodNotAllowed(rev) ==
    IF RouteOf(rev) = "generate"
    THEN Failure(405, "Method not allowed",
                 "This endpoint only accepts POST requests")
    ELSE FailureBare(405, "Method not allowed")

\* A request arrives: the method check, then makeRateKey and
\* rateLimiter.consume inside try { } catch { return 429 }; surprise.js
\* skips both when its rateLimiter is null.
BodyEnter(method, body, json, multi) ==
    /\ probe.pc = "idle"
    /\ probe.n < MaxBodyRequests
    /\ RouteOf(probe.rev) = "surprise" => body = "idea" /\ ~json /\ ~multi
    /\ \E h \in {[probe EXCEPT !.method = method, !.body = body,
                               !.isJsonMode = json, !.isMultiPrompt = multi]} :
       \E key \in {HandlerKey(BodyRequest(h.rev, method), env)} :
       \E l \in {rateLimiterOf(RouteOf(h.rev), build)} :
          IF method # "POST"
          THEN /\ probe' = [h EXCEPT !.pc = "done", !.sent = @ + 1]
               /\ probeOut' = MethodNotAllowed(h.rev)
               /\ UNCHANGED buckets
          ELSE IF h.rateLimiter = "null"
          THEN /\ probe' = [h EXCEPT !.pc = "admitted"]
               /\ UNCHANGED << probeOut, buckets >>
          ELSE /\ buckets' = [buckets EXCEPT ![l] = ConsumeTable(@, key, now)]
               /\ IF ConsumeAllows(buckets[l], key, now)
                  THEN /\ probe' = [h EXCEPT !.pc = "admitted",
                                             !.consumed = "allow",
                                             !.before = PointsBefore(buckets[l], key, now)]
                       /\ UNCHANGED probeOut
                  ELSE /\ probe' = [h EXCEPT !.pc = "done",
                                             !.consumed = "reject",
                                             !.sent = @ + 1,
                                             !.before = PointsBefore(buckets[l], key, now)]
                       /\ probeOut' = TooManyRequests
    /\ UNCHANGED << env, build, traffic, now, inflight, log >>

MissingApiKey(rev) ==
    IF RouteOf(rev) = "generate"
    THEN Failure(500, "Server configuration error",
                 "API key is not configured. Please contact the administrator.")
    ELSE FailureBare(500, "Server configuration error")

\* form.parse(req) rejects for a file above maxFileSize; the error is the
\* one of the formidable package, which carries httpCode 413 and a numeric
\* code, and neither statusCode nor the code 'PAYLOAD_TOO_LARGE'
UploadTooLarge ==
    [name |-> "Error", message |-> "options.maxFileSize exceeded"]

ImageProcessingError ==
    Failure(500, "Image processing error",
            "Failed to process the uploaded image. Please try again.")

\* files.image ? files.image[0] : null
HasImageFile(h) == h.attachment \in {"image", "unreadable"}

\* the response that ends the handler before any call, if there is one:
\* the body is read and validated (generate), the API key is looked up,
\* then the uploaded file is read
EarlyResponse(h, e) ==
    IF RouteOf(h.rev) = "generate" /\ h.body = "oversize"
    THEN OuterCatch([name |-> "PayloadTooLarge", message |-> "Payload too large"])
    ELSE IF RouteOf(h.rev) = "generate" /\ h.attachment = "oversize"
    THEN OuterCatch(UploadTooLarge)
    ELSE IF RouteOf(h.rev) = "generate" /\ h.body = "blank" /\ ~HasImageFile(h)
    THEN Failure(400, "Bad request",
                 "Either an \"idea\" or an image must be provided")
    ELSE IF e.OPENROUTER_API_KEY = "" THEN MissingApiKey(h.rev)
    ELSE IF h.attachment = "unreadable" THEN ImageProcessingError
    ELSE Idle

\* the file formidable wrote for the upload when the handler has passed
\* its early checks or answered in them: fs.unlink runs only after a
\* successful fs.readFile, past the API key check
TempFileAfter(h, early) ==
    IF ~HasImageFile(h) THEN h.tempFile
    ELSE IF early = Idle THEN "removed" ELSE "present"

\* an early response without its return: the handler runs on to the calls
AfterEarlyRunsOn(h) == IF h.isMultiPrompt THEN "stage1" ELSE "final"

\* return res.status(...).json(...): the handler ends with the response
AfterEarly(h) == "done"

BodyPrepare ==
    /\ probe.pc = "admitted"
    /\ \E early \in {EarlyResponse(probe, env)} :
          IF early # Idle
          THEN /\ probe' = [probe EXCEPT !.pc = AfterEarly(probe), !.sent = @ + 1,
                                         !.tempFile = TempFileAfter(probe, early)]
               /\ probeOut' = early
          ELSE /\ probe' = [probe EXCEPT !.pc = IF probe.isMultiPrompt
                                                THEN "stage1" ELSE "final",
                                         !.tempFile = TempFileAfter(probe, early),
                                         !.imageBase64 = HasImageFile(probe)]
               /\ UNCHANGED probeOut
    /\ UNCHANGED << env, build, traffic, now, buckets, inflight, log >>

\* a stage 1 whose text is taken whatever the call did
Stage1RefinesAlways(up) == TRUE

\* stage 1 gave a text: the call returned, the response is ok, its body
\* is JSON and choices[0].message.content is truthy
Stage1Refines(up) ==
    /\ ~CallThrows(up)
    /\ ResponseOk(up)
    /\ up.kind = "http"
    /\ ~NoContent(up)

\* stage 1 of multi-prompt mode: whatever the refinement call does, the
\* handler goes on; the refined text is used when the call gave content.
\* The call carries the image when there is one.
Stage1Settles(up) ==
    /\ probe.pc = "stage1"
    /\ probe' = [probe EXCEPT !.pc = "final", !.calls = @ + 1,
                              !.refined = Stage1Refines(up),
                              !.stage1 = IF Stage1Refines(up) THEN "refined"
                                         ELSE "failed",
                              !.carried = IF probe.imageBase64
                                          THEN @ \cup {"stage1"} ELSE @]
    /\ UNCHANGED << env, build, traffic, now, buckets, inflight, log, probeOut >>

\* a handler that gave the point back when it answers with a failure
LimiterAfterResponseRefunds(table, key, res) ==
    IF res.status >= 500 /\ key \in DOMAIN table
    THEN [table EXCEPT ![key].points_remaining = @ + Cost]
    ELSE table

\* the bucket table when the handler has answered: no path after the
\* consume touches the limiter again
LimiterAfterResponse(table, key, res) == table

\* const finalSystemPrompt = isJsonMode ? ... : isVideoPrompt ? ... :
\* isTestMode ? ... : defaultSystemPrompt; the surprise routes have one
finalSystemPrompt(h) ==
    IF RouteOf(h.rev) = "surprise" THEN "surprise"
    ELSE IF h.isJsonMode THEN "json"
    ELSE IF h.isVideoPrompt THEN "video"
    ELSE IF h.isTestMode THEN "test"
    ELSE "default"

\* hasImage of the final call: !!imageBase64 && !isMultiPrompt
FinalHasImage(h) == h.imageBase64 /\ ~h.isMultiPrompt

\* the final call settles and the handler runs to its response
FinalSettles(up) ==
    /\ probe.pc = "final"
    /\ \E o \in AfterCall(probe, up) :
       \E key \in {HandlerKey(BodyRequest(probe.rev, probe.method), env)} :
       \E l \in {rateLimiterOf(RouteOf(probe.rev), build)} :
          /\ probe' = [probe EXCEPT !.pc = "done", !.calls = @ + 1,
                                    !.final = up, !.ran = o.ran,
                                    !.systemPrompt = finalSystemPrompt(probe),
                                    !.carried = IF FinalHasImage(probe)
                                                THEN @ \cup {"final"} ELSE @,
                                    !.sent = @ + 1]
          /\ probeOut' = o.res
          /\ buckets' = [buckets EXCEPT ![l] = LimiterAfterResponse(@, key, o.res)]
    /\ UNCHANGED << env, build, traffic, now, inflight, log >>

\* the response is sent and the next request may arrive
BodyRetire ==
    /\ probe.pc = "done"
    /\ probe' = NewInvocation(probe.rev, probe.rateLimiter, probe.n + 1)
    /\ probeOut' = Idle
    /\ UNCHANGED << env, build, traffic, now, buckets, inflight, log >>

NextBody ==
    \/ \E method \in Methods, body \in Bodies, json \in BOOLEAN, multi \in BOOLEAN :
          BodyEnter(method, body, json, multi)
    \/ BodyPrepare
    \/ \E up \in Upstreams : Stage1Settles(up)
    \/ \E up \in Upstreams : FinalSettles(up)
    \/ BodyRetire

SpecBody == InitBody /\ [][NextBody]_vars

----------------------------------------------------------------------------
(* The generate handlers with their mode flags and an uploaded image.      *)

\* requests one behaviour of SpecModes handles
MaxModeRequests == 2

ModeRevisions == {"generate", "generate-structured"}

\* what the multipart body holds as files.image: nothing, an image, an
\* image whose temporary file cannot be read, a file above maxFileSize
Attachments == {"none", "image", "unreadable", "oversize"}

InitModes ==
    /\ \E k \in ApiKeys :
          env = [VERCEL |-> "", TRUST_PROXY |-> "", OPENROUTER_API_KEY |-> k]
    /\ build = "per-route"
    /\ traffic = {}
    /\ now = 0
    /\ buckets = [l \in Limiters |-> NoBuckets]
    /\ inflight = EmptyBag
    /\ log = EmptyBag
    /\ \E rev \in ModeRevisions : probe = NewInvocation(rev, "loaded", 0)
    /\ probeOut = Idle

\* A POST arrives at /api/generate with its fields and, in a multipart
\* body, its file: rateLimiter.consume, then the handler goes on to read
\* the body.
UploadEnter(body, attachment, json, test, video, multi) ==
    /\ probe.pc = "idle"
    /\ probe.rev \in ModeRevisions
    /\ probe.n < MaxModeRequests
    /\ \E h \in {[probe EXCEPT !.body = body, !.attachment = attachment,
                               !.isJsonMode = json, !.isTestMode = test,
                               !.isVideoPrompt = video, !.isMultiPrompt = multi]} :
       \E key \in {HandlerKey(BodyRequest(h.rev, h.method), env)} :
       \E l \in {rateLimiterOf(RouteOf(h.rev), build)} :
          /\ buckets' = [buckets EXCEPT ![l] = ConsumeTable(@, key, now)]
          /\ IF ConsumeAllows(buckets[l], key, now)
             THEN /\ probe' = [h EXCEPT !.pc = "admitted",
                                        !.consumed = "allow",
                                        !.before = PointsBefore(buckets[l], key, now)]
                  /\ UNCHANGED probeOut
             ELSE /\ probe' = [h EXCEPT !.pc = "done",
                                        !.consumed = "reject",
                                        !.sent = @ + 1,
                                        !.before = PointsBefore(buckets[l], key, now)]
                  /\ probeOut' = TooManyRequests
    /\ UNCHANGED << env, build, traffic, now, inflight, log >>

NextModes ==
    \/ \E body \in {"idea", "blank"}, attachment \in Attachments,
          json \in BOOLEAN, test \in BOOLEAN, video \in BOOLEAN,
          multi \in BOOLEAN :
          UploadEnter(body, attachment, json, test, video, multi)
    \/ BodyPrepare
    \/ \E up \in Upstreams : Stage1Settles(up)
    \/ \E up \in Upstreams : FinalSettles(up)
    \/ BodyRetire

SpecModes == InitModes /\ [][NextModes]_vars

----------------------------------------------------------------------------
(* What the handlers answer.                                               *)

Responded == probe.pc = "done"

\* the bucket of the sender in the limiter of the revision's route
BodyBucket ==
    buckets[rateLimiterOf(RouteOf(probe.rev), build)]
           [HandlerKey(BodyRequest(probe.rev, "POST"), env)]

\* C11: in JSON mode a success envelope carries a JSON object (not an
\* array, number or string) that holds a top-level text field; every other
\* model output fails the request.
C11_JsonModeGivesTextObject ==
    (Responded /\ probe.isJsonMode /\ probeOut.status = 200) =>
        /\ probeOut.body.prompt[1] = "obj"
        /\ \E key \in DOMAIN probeOut.body.prompt[2] :
              probeOut.body.prompt[2][key][1] = "str"

\* C15: no field of a failure response is the message of an internal
\* exception or the message of the upstream service's error body.
C15_FixedFailureFields ==
    (Responded /\ probeOut.status # 200) =>
        \A field \in DOMAIN probeOut.body :
            probeOut.body[field] \notin UpstreamMessages \cup ExceptionMessages

\* C16: an upstream answer of 401 or 402 gets the response that an upstream
\* answer of 500 with the same body gets.
C16_AuthAndBillingLookGeneric ==
    (Responded /\ probe.final.kind = "http" /\ probe.final.status \in {401, 402}) =>
        probeOut \in {o.res : o \in AfterCall(probe, [probe.final EXCEPT !.status = 500])}

\* C17: a handler answers 429 if and only if try_consume rejected the
\* request.
C17_QuotaResponseIffRejected ==
    Responded => (probeOut.status = 429 <=> probe.consumed = "reject")

\* C18: when the final call is aborted by its timer the handler calls
\* neither sanitizeToPrompt nor parseJsonStrictish, answers with a failure,
\* and the point it consumed stays consumed.
C18_TimeoutFailsWithoutRefund ==
    (Responded /\ probe.final.kind = "abort") =>
        /\ probe.ran \cap {"sanitizeToPrompt", "parseJsonStrictish"} = {}
        /\ probeOut.status >= 400
        /\ probe.consumed = "allow" =>
              BodyBucket.points_remaining = probe.before - Cost

\* a multi-prompt JSON request, the third of its sender, whose refinement
\* call gave text and whose final call timed out
C18_Witness ==
    /\ Responded
    /\ probe.rev = "generate"
    /\ probe.final.kind = "abort"
    /\ probe.isJsonMode /\ probe.isMultiPrompt /\ probe.refined
    /\ probe.calls = 2
    /\ probe.consumed = "allow"
    /\ probe.before = Points - 2
    /\ probeOut = ExternalServiceError

\* C19: a call of the model service is made only by a handler whose
\* try_consume answered Allow.
C19_CallOnlyAfterAllow ==
    probe.calls > 0 => probe.consumed = "allow"

----------------------------------------------------------------------------
(* sanitizeToPrompt: applied twice.                                        *)

\* C21: sanitizeToPrompt is idempotent: applied to its own output it
\* returns that output, also for texts with repeated 'prompt ...:' labels,
\* several '---' rules or nested emphasis.
C21_SanitizeIdempotent ==
    probeOut.pc = "resanitized" => probeOut.again = probeOut.value

----------------------------------------------------------------------------
(* The prompt of a success response in default mode.                       *)

\* "an AI that writes a single vivid image prompt between 500-1200
\* characters" (the default system prompt)
MinPromptLength == 500

MarkdownChars == {"#", "*", Backtick}

\* C22: every plain-text prompt a generate handler returns with 200 in
\* default mode is one paragraph of 500 to 1200 characters without '#',
\* '*' or a backtick, whatever the model service returned.
C22_DefaultPromptShape ==
    ( /\ Responded
      /\ RouteOf(probe.rev) = "generate"
      /\ ~probe.isJsonMode
      /\ probeOut.status = 200 )
    => \E p \in {probeOut.body.prompt} :
          /\ Len(p) >= MinPromptLength
          /\ Len(p) <= MaxPromptLength
          /\ \A i \in 1..Len(p) : p[i] \notin MarkdownChars \cup {"\n"}

----------------------------------------------------------------------------
(* The trimming stage of parseJsonStrictish, pass by pass.                 *)

\* the trimming stage is entered with a candidate, in either revision
InitTrim ==
    /\ env = DirectEnv
    /\ build = "per-route"
    /\ traffic = {}
    /\ now = 0
    /\ buckets = [l \in Limiters |-> NoBuckets]
    /\ inflight = EmptyBag
    /\ log = EmptyBag
    /\ \E c \in TrimTexts, rev \in ParserRevisions :
          probe = [pc |-> "trim", window |-> ScanWindowOf(rev),
                   candidate |-> c, end |-> Len(c), positions |-> 0,
                   attempts |-> 0, last |-> 0, shortest |-> Len(c)]
    /\ probeOut = Idle

\* the loop runs on: a pass that can be taken is taken
SpecTrim == InitTrim /\ [][TrimPosition]_vars /\ WF_vars(TrimPosition)

Trimming == probe.pc = "trim"

LeftAtShortSnippet ==
    probeOut = Left("short")
    => Len(Trim(SubSeq(probe.candidate, 1, probe.end))) < MinSnippet

\* the claim with 600 as the bound of every revision
C26_ScanAtMost600 == Trimming => probe.positions <= ScanWindow

\* a pass either ends the stage or moves to the next shorter prefix
TrimAdvances ==
    \/ probeOut' # Idle
    \/ probe'.end = probe.end - 1 /\ probe'.positions = probe.positions + 1

\* C26: the trimming stage examines at most a fixed number of end
\* positions, counted from the end of the candidate and whatever its
\* length (600 in generate.js, 2000 in the earlier revision), makes at
\* most 5 parse attempts at each, parses no snippet shorter than 10
\* characters and leaves the loop at the first such snippet; every pass
\* ends the stage or shortens the prefix by one, so the stage terminates.
C26_BoundedTrimming ==
    /\ [](Trimming =>
            /\ probe.positions <= probe.window
            /\ probe.positions <= Len(probe.candidate)
            /\ probe.end >= Len(probe.candidate) - probe.window
            /\ probe.end >= 0
            /\ probe.last <= 5
            /\ probe.attempts <= 5 * probe.positions
            /\ probe.positions > 0 => probe.shortest >= MinSnippet
            /\ LeftAtShortSnippet)
    /\ [][TrimAdvances]_vars

\* a candidate longer than the window, scanned to the end of the window
\* with five parses at every position
C26_Witness ==
    /\ Trimming
    /\ Len(probe.candidate) > probe.window
    /\ probeOut = Left("window")
    /\ probe.positions = probe.window
    /\ probe.attempts = 5 * probe.window

----------------------------------------------------------------------------
(* What a success response carries, mode by mode.                          *)

\* the completion the final call gave, as the handler reads it
RawContent == Trim(probe.final.content)

Succeeded == Responded /\ probeOut.status = 200

\* C23: in every combination of the mode flags the prompt of a success
\* response is the output of sanitizeToPrompt for the completion or, in
\* JSON mode, an object the recovering parser accepts; model output that
\* went through neither is never returned with 200.
C23_PromptSanitizedOrParsed ==
    Succeeded =>
       IF probe.isJsonMode
       THEN /\ IsObjectType(probeOut.body.prompt)
            /\ Truthy(parseJsonStrictish(RawContent))
       ELSE probeOut.body.prompt = sanitizeToPrompt(RawContent)

\* the request carries neither an idea nor a file, or a file above the
\* size limit
InvalidInput ==
    \/ probe.body = "blank" /\ probe.attachment = "none"
    \/ probe.attachment = "oversize"

\* C24: a request with neither a non-blank idea nor an attachment, and a
\* request whose attachment exceeds 10 MiB, is answered with a 4xx status,
\* never with a 5xx, and no call to the model service is made for it.
C24_InvalidInputIsClientError ==
    (Responded /\ InvalidInput) =>
        /\ probeOut.status >= 400
        /\ probeOut.status <= 499
        /\ probe.calls = 0

\* C25: when the handler has sent its response, on any path, the temporary
\* file of an uploaded attachment has been removed.
C25_TempFileRemoved == Responded => probe.tempFile # "present"

----------------------------------------------------------------------------
(* Multi-prompt mode.                                                      *)

\* the refinement call returned a completion with content
GaveContent(up) ==
    up.kind = "http" /\ up.status = 200 /\ up.content \notin {Missing, EmptyStr}

\* however stage 1 ends, the handler stands before the final call, and it
\* takes the refined text exactly when the call gave content
Stage1NeverFails ==
    \A up \in Upstreams :
        Stage1Settles(up) =>
            /\ probe'.pc = "final"
            /\ probeOut' = Idle
            /\ probe'.refined = GaveContent(up)

\* C27: in multi-prompt mode a failure of stage 1 (error status, thrown
\* error, timeout, empty content) never fails the request: the handler
\* goes on to the final call with the original user prompt, and the
\* refined text is used only when stage 1 returned non-empty content.
C27_Stage1FailureFallsBack ==
    /\ [][Stage1NeverFails]_vars
    /\ []( probe.stage1 # "none" =>
             /\ probe.pc \in {"final", "done"}
             /\ probe.refined = (probe.stage1 = "refined")
             /\ Responded => probe.calls = 2 /\ probe.final.kind # "none" )

\* stage 1 failed and the request succeeded on the original user prompt
C27_Witness ==
    /\ Succeeded
    /\ probe.isMultiPrompt
    /\ probe.stage1 = "failed"
    /\ ~probe.refined
    /\ probe.calls = 2

\* a call that carried the image completed and its output fed the prompt:
\* the final call, or a stage 1 whose refined text the final call took
ImageFedPrompt ==
    \/ "final" \in probe.carried
    \/ "stage1" \in probe.carried /\ probe.stage1 = "refined"

\* C28: for every request with an image that ends in a success response,
\* the image was part of a call to the model service that completed and
\* whose output fed the returned prompt, also in multi-prompt mode when
\* stage 1 fails and the final call is made without the image.
C28_ImageReachedTheModel ==
    (Succeeded /\ probe.attachment = "image") => ImageFedPrompt

\* C30: for every combination of isJsonMode, isVideoPrompt and isTestMode
\* the post-processing of the first revision matches the selected system
\* prompt: parseJsonStrictish with the JSON prompt, the test-mode clean-up
\* with the test prompt, sanitizeToPrompt with the video and the default
\* prompt, also when isVideoPrompt and isTestMode are both set.
C30_PostProcessingMatchesPrompt ==
    (Responded /\ probe.rev = "generate" /\ probe.ran # {}) =>
        probe.ran =
            CASE probe.systemPrompt = "json" -> {"parseJsonStrictish"}
              [] probe.systemPrompt = "test" -> {"testModeCleanup"}
              [] OTHER -> {"sanitizeToPrompt"}

----------------------------------------------------------------------------
(* Every invocation answers once.                                          *)

\* all handlers with all their requests; a step the handler can take is
\* taken: its awaits settle, each call within its abort timer
NextServed ==
    \/ \E method \in Methods, body \in Bodies, json \in BOOLEAN, multi \in BOOLEAN :
          BodyEnter(method, body, json, multi)
    \/ \E body \in {"idea", "blank"}, attachment \in Attachments,
          json \in BOOLEAN, test \in BOOLEAN, video \in BOOLEAN,
          multi \in BOOLEAN :
          UploadEnter(body, attachment, json, test, video, multi)
    \/ BodyPrepare
    \/ \E up \in Upstreams : Stage1Settles(up)
    \/ \E up \in Upstreams : FinalSettles(up)
    \/ BodyRetire

SpecServed ==
    /\ InitBody
    /\ [][NextServed]_vars
    /\ WF_vars(BodyPrepare)
    /\ WF_vars(\E up \in Upstreams : Stage1Settles(up))
    /\ WF_vars(\E up \in Upstreams : FinalSettles(up))

Running == probe.pc \in {"admitted", "stage1", "final"}

====
